---- MODULE Spec2Model ----
(***************************************************************************)
(* Dump-ticket system (src/app.py): ticket issuance with a per-year        *)
(* sequence counter, snapshot capture, document persistence and the        *)
(* reference tables the entry form resolves against.                       *)
(*                                                                         *)
(* Text is a sequence of one-character strings, so that strip(), upper(),  *)
(* float() and the number formatting are computed, not assumed.            *)
(* The sqlite database is one committed copy of the tables plus the        *)
(* working copy of the connection that holds the write lock.               *)
(***************************************************************************)
EXTENDS Integers, Sequences, FiniteSets, TLC

(* ------------------------------ bounds -------------------------------- *)
\* the calendar year the model starts in, and how many new years it sees
FirstYear == 2025
MaxYearTicks == 1
\* stored tickets beyond which the concurrent specification takes no new request
MaxTickets == 2
\* the same, for the single-connection entry specification
MaxEntryTickets == 1
\* the same, for the reference-data specification
MaxAdminTickets == 2
MaxReportTickets == 3
MaxLiveTickets == 1

(* ------------------------------- text --------------------------------- *)
None == <<"None">>            \* Python None / SQL NULL for a text value
E == <<>>                     \* the empty string

Digit == {"0", "1", "2", "3", "4", "5", "6", "7", "8", "9"}
DigitVal(c) ==
    CASE c = "0" -> 0 [] c = "1" -> 1 [] c = "2" -> 2 [] c = "3" -> 3
      [] c = "4" -> 4 [] c = "5" -> 5 [] c = "6" -> 6 [] c = "7" -> 7
      [] c = "8" -> 8 [] c = "9" -> 9
DigitChar(n) == <<"0", "1", "2", "3", "4", "5", "6", "7", "8", "9">>[n + 1]

\* str.strip(): leading and trailing blanks removed
RECURSIVE lstrip(_)
lstrip(s) == IF s # E /\ Head(s) = " " THEN lstrip(Tail(s)) ELSE s
RECURSIVE rstrip(_)
rstrip(s) == IF s # E /\ s[Len(s)] = " " THEN rstrip(SubSeq(s, 1, Len(s) - 1)) ELSE s
strip(s) == rstrip(lstrip(s))

\* str.upper() and str.lower(), on ASCII letters
LowerLetters ==
    <<"a", "b", "c", "d", "e", "f", "g", "h", "i", "j", "k", "l", "m",
      "n", "o", "p", "q", "r", "s", "t", "u", "v", "w", "x", "y", "z">>
UpperLetters ==
    <<"A", "B", "C", "D", "E", "F", "G", "H", "I", "J", "K", "L", "M",
      "N", "O", "P", "Q", "R", "S", "T", "U", "V", "W", "X", "Y", "Z">>
ToUpper == [c \in {LowerLetters[i] : i \in 1..26} |->
               UpperLetters[CHOOSE i \in 1..26 : LowerLetters[i] = c]]
ToLower == [c \in {UpperLetters[i] : i \in 1..26} |->
               LowerLetters[CHOOSE i \in 1..26 : UpperLetters[i] = c]]
UpperChar(c) == IF c \in DOMAIN ToUpper THEN ToUpper[c] ELSE c
upper(s) == [i \in 1..Len(s) |-> UpperChar(s[i])]
lower(s) == [i \in 1..Len(s) |-> IF s[i] \in DOMAIN ToLower THEN ToLower[s[i]] ELSE s[i]]

\* str(n) for n >= 0
RECURSIVE Str(_)
Str(n) == IF n < 10 THEN <<DigitChar(n)>> ELSE Str(n \div 10) \o <<DigitChar(n % 10)>>

\* format(n, "06d"): zero-padded to a minimum width of 6
RECURSIVE ZeroPad(_, _)
ZeroPad(s, w) == IF Len(s) >= w THEN s ELSE ZeroPad(<<"0">> \o s, w)
PadWidth == 6
\* (a number formatted without padding)
FormatPlain(n) == Str(n)
Format06d(n) == ZeroPad(Str(n), PadWidth)

AllDigits(s) == s # E /\ \A i \in 1..Len(s) : s[i] \in Digit
RECURSIVE DecVal(_)
DecVal(s) == IF s = E THEN 0 ELSE DecVal(SubSeq(s, 1, Len(s) - 1)) * 10 + DigitVal(s[Len(s)])

\* form.get(name, "").strip() : an absent field reads as ""
GetStripped(v) == IF v = None THEN E ELSE strip(v)
\* (form.get(name) or default).strip() : absent and "" both read as the default
GetOrDefault(v, d) == IF v = None \/ v = E THEN strip(d) ELSE strip(v)

\* float(text), for plain decimal literals: [sign] digits [. digits] | [sign] . digits
\* (the exponent, inf/nan and underscore forms float() also takes are outside
\* the model's alphabet).  The value is kept in hundredths.
Unsigned(s) == IF s # E /\ Head(s) \in {"+", "-"} THEN Tail(s) ELSE s
DotPos(s) == IF \E i \in 1..Len(s) : s[i] = "."
             THEN CHOOSE i \in 1..Len(s) : s[i] = "." /\ \A j \in 1..(i - 1) : s[j] # "."
             ELSE 0
IntPart(s) == IF DotPos(s) = 0 THEN s ELSE SubSeq(s, 1, DotPos(s) - 1)
FracPart(s) == IF DotPos(s) = 0 THEN E ELSE SubSeq(s, DotPos(s) + 1, Len(s))
OnlyDigits(s) == \A i \in 1..Len(s) : s[i] \in Digit
IsFloat(s) ==
    LET u == Unsigned(s) IN
    /\ OnlyDigits(IntPart(u))
    /\ OnlyDigits(FracPart(u))
    /\ IntPart(u) # E \/ FracPart(u) # E
FloatValue(s) ==
    LET u == Unsigned(s)
        f == SubSeq(FracPart(u) \o <<"0", "0">>, 1, 2)
        m == DecVal(IntPart(u)) * 100 + DecVal(f)
    IN IF s # E /\ Head(s) = "-" THEN 0 - m ELSE m

\* datetime.fromisoformat(text), for YYYY-MM-DD and YYYY-MM-DDTHH:MM
DaysIn(y, m) ==
    IF m = 2 THEN (IF y % 4 = 0 /\ (y % 100 # 0 \/ y % 400 = 0) THEN 29 ELSE 28)
    ELSE IF m \in {4, 6, 9, 11} THEN 30 ELSE 31
Num(s, a, b) == DecVal(SubSeq(s, a, b))
IsIsoDate(s) ==
    /\ Len(s) >= 10
    /\ \A i \in {1, 2, 3, 4, 6, 7, 9, 10} : s[i] \in Digit
    /\ s[5] = "-" /\ s[8] = "-"
    /\ Num(s, 1, 4) >= 1
    /\ Num(s, 6, 7) \in 1..12
    /\ Num(s, 9, 10) \in 1..DaysIn(Num(s, 1, 4), Num(s, 6, 7))
IsIsoTime(s) ==
    /\ Len(s) = 16
    /\ s[11] \in {"T", " "}
    /\ \A i \in {12, 13, 15, 16} : s[i] \in Digit
    /\ s[14] = ":"
    /\ Num(s, 12, 13) \in 0..23
    /\ Num(s, 15, 16) \in 0..59
IsIsoFormat(s) == IsIsoDate(s) /\ (Len(s) = 10 \/ IsIsoTime(s))
\* datetime.fromisoformat(text).isoformat(timespec="seconds")
IsoSeconds(s) ==
    SubSeq(s, 1, 10) \o <<"T">>
      \o (IF Len(s) = 10 THEN <<"0", "0", ":", "0", "0">> ELSE SubSeq(s, 12, 16))
      \o <<":", "0", "0">>
\* datetime.now().isoformat(timespec="seconds"); the clock is observed at the
\* granularity of the calendar year
NowIso(y) == ZeroPad(Str(y), 4) \o
    <<"-", "0", "1", "-", "0", "1", "T", "0", "0", ":", "0", "0", ":", "0", "0">>

\* f"DT-{year}-{next_value:06d}"
TicketNumber(y, n) == <<"D", "T", "-">> \o Str(y) \o <<"-">> \o Format06d(n)

(* --------------------------- order of texts --------------------------- *)
\* the printable ASCII characters in code order (the quote, the backslash and
\* the backquote, which no text of the model holds, left out); Ord is the rank
\* of a character
Ascii ==
    <<" ", "!", "#", "$", "%", "&", "'", "(", ")", "*", "+", ",",
      "-", ".", "/", "0", "1", "2", "3", "4", "5", "6", "7", "8",
      "9", ":", ";", "<", "=", ">", "?", "@", "A", "B", "C", "D",
      "E", "F", "G", "H", "I", "J", "K", "L", "M", "N", "O", "P",
      "Q", "R", "S", "T", "U", "V", "W", "X", "Y", "Z", "[", "]",
      "^", "_", "a", "b", "c", "d", "e", "f", "g", "h", "i", "j",
      "k", "l", "m", "n", "o", "p", "q", "r", "s", "t", "u", "v",
      "w", "x", "y", "z", "{", "|", "}", "~">>
AsciiRank == [ch \in {Ascii[i] : i \in 1..Len(Ascii)} |->
                 CHOOSE i \in 1..Len(Ascii) : Ascii[i] = ch]
Ord(ch) == AsciiRank[ch]
\* sqlite's BINARY collation (memcmp): the first differing character decides,
\* and a proper prefix comes first
RECURSIVE StrLess(_, _)
StrLess(a, b) ==
    IF b = <<>> THEN FALSE
    ELSE IF a = <<>> THEN TRUE
    ELSE IF Head(a) = Head(b) THEN StrLess(Tail(a), Tail(b))
    ELSE Ord(Head(a)) < Ord(Head(b))
StrLessEq(a, b) == a = b \/ StrLess(a, b)
\* the rows of the set S in the order ORDER BY gives them, Before being strict
\* and total on S
SortSet(S, Before(_, _)) ==
    [i \in 1..Cardinality(S) |->
        CHOOSE x \in S : Cardinality({y \in S : Before(y, x)}) = i - 1]

(* ------------------------------ inputs -------------------------------- *)
DirIN == <<"I", "N">>
DirOUT == <<"O", "U", "T">>
JobText == <<"J", "1", "0", "0", " ", "-", " ", "M", "a", "i", "n", " ", "S", "t">>
J100 == <<"J", "1", "0", "0">>
MainSt == <<"M", "a", "i", "n", " ", "S", "t">>
T12 == <<"T", "1", "2">>
Gravel == <<"G", "r", "a", "v", "e", "l">>
Ton == <<"T", "o", "n">>
Load == <<"L", "o", "a", "d">>
Acme == <<"A", "c", "m", "e">>
Qty125 == <<"1", "2", ".", "5">>
Blank == <<" ">>
JobTwoSeps == <<"A", " ", "-", " ", "B", " ", "-", " ", "C">>
JobWideSep == <<"J", " ", " ", "-", " ", " ", "M">>
DateOld == <<"2", "0", "2", "4", "-", "1", "2", "-", "3", "1">>
DateTimeOld == DateOld \o <<"T", "0", "7", ":", "3", "0">>

\* the fields of the POSTed entry form; None is a field the request does not carry
BaseForm ==
    [direction |-> DirIN, job_id |-> E, job_entry |-> JobText,
     truck_id |-> E, truck_entry |-> T12,
     material_id |-> E, material_entry |-> Gravel,
     customer |-> E, quantity |-> Qty125, unit |-> Ton, notes |-> E,
     auto_print |-> FALSE, use_now |-> TRUE, custom_datetime |-> None]
NoForm == [BaseForm EXCEPT !.direction = None, !.job_entry = None, !.truck_entry = None,
                           !.material_entry = None, !.quantity = None, !.unit = None,
                           !.use_now = FALSE]

\* requests of the concurrent specification: one that is accepted, one rejected
\* before the transaction and one rejected inside it
CoreForms ==
    { [BaseForm EXCEPT !.auto_print = TRUE],
      [BaseForm EXCEPT !.use_now = FALSE],
      [BaseForm EXCEPT !.direction = <<"X">>] }

(* ------------------------------- state -------------------------------- *)
VARIABLES
    ticket_sequence,  \* committed table ticket_sequence: year -> last_value
    tickets,          \* committed table tickets, in id order
    jobs_cache,       \* committed table jobs_cache, in id order
    trucks,           \* committed table trucks, in id order
    materials,        \* committed table materials, in id order
    lock,             \* the connection holding sqlite's write lock, or NoOne
    work,             \* the lock holder's uncommitted copy of the tables it writes
    files,            \* tickets_pdf/: path -> bytes
    year,             \* datetime.now().year
    pc,               \* per connection: where its request handler stands
    form,             \* per connection: request.form of the pending POST
    loc,              \* per connection: the handler's local variables
    resp,             \* per connection: the response of the finished request
    source,           \* the job sources: environment variables and the files they name
    sync,             \* the jobs sync in progress: its position, locals and transaction
    view              \* the body a GET of a report is answered with

vars == <<ticket_sequence, tickets, jobs_cache, trucks, materials, lock, work,
          files, year, pc, form, loc, resp, source, sync, view>>
db_vars == <<ticket_sequence, tickets, jobs_cache, trucks, materials>>
req_vars == <<pc, form, loc, resp>>
ext_vars == <<source, sync, view>>

Conns == {"c1", "c2"}          \* connections of the concurrent specification
EntryConns == {"c1"}           \* the entry specification serves one request at a time
NoOne == "none"
NoWork == [ticket_sequence |-> <<>>, tickets |-> <<>>]
NoResp == "none"
Years == FirstYear..(FirstYear + MaxYearTicks)

NoLoc ==
    [direction |-> None, job_id_value |-> 0, job_code_snapshot |-> None,
     job_name_snapshot |-> None, customer |-> None,
     truck_id_value |-> 0, truck_number_snapshot |-> None,
     material_id_value |-> 0, material_name_snapshot |-> None,
     quantity_num |-> 0, unit |-> None, notes |-> None,
     auto_print |-> FALSE, use_now |-> FALSE, custom_datetime |-> None,
     ticket_number |-> None, ticket_year |-> 0, seq |-> 0, created_at |-> None,
     pdf_bytes |-> None, pdf_path |-> None]

\* no report is being answered
NoView == [endpoint |-> "none"]

\* the environment of the process and what its job sources hold: nothing is
\* configured, no file exists, the remote server cannot be reached
NoSource ==
    [JOBS_CSV_PATH |-> None, AUTO_REFRESH_JOBS_ON_STARTUP |-> None,
     REMOTE_SQL_ODBC_CONNECTION_STRING |-> None,
     files |-> <<>>, remote_up |-> FALSE, remote_rows |-> <<>>]
NoCol == ""
NoCols ==
    [job_code_col |-> NoCol, job_name_col |-> NoCol, customer_col |-> NoCol,
     active_col |-> NoCol, source_updated_at_col |-> NoCol]
\* no sync is running and none has run
NoSync ==
    [pc |-> "idle", trigger |-> "none", chosen |-> None, cols |-> NoCols,
     rows |-> <<>>, next |-> 0, jobs |-> <<>>, wrote |-> FALSE, synced |-> 0,
     result |-> "none", last |-> NoSource, again |-> FALSE]

Init ==
    /\ ticket_sequence = <<>>
    /\ tickets = <<>>
    /\ jobs_cache = <<>>
    /\ trucks = <<>>
    /\ materials = <<>>
    /\ lock = NoOne
    /\ work = NoWork
    /\ files = <<>>
    /\ year = FirstYear
    /\ pc = [c \in Conns |-> "idle"]
    /\ form = [c \in Conns |-> NoForm]
    /\ loc = [c \in Conns |-> NoLoc]
    /\ resp = [c \in Conns |-> NoResp]
    /\ source = NoSource
    /\ sync = NoSync
    /\ view = NoView

(* --------------------- new_ticket: validation ------------------------- *)
\* lines 517-527: the form fields as the handler reads them
Fields(f) ==
    [direction |-> upper(GetStripped(f.direction)),
     job_id |-> GetStripped(f.job_id),
     job_entry |-> GetStripped(f.job_entry),
     truck_id |-> GetStripped(f.truck_id),
     truck_entry |-> GetStripped(f.truck_entry),
     material_id |-> GetStripped(f.material_id),
     material_entry |-> GetStripped(f.material_entry),
     customer |-> GetStripped(f.customer),
     quantity |-> GetOrDefault(f.quantity, <<"1">>),
     unit |-> GetOrDefault(f.unit, Load),
     notes |-> GetStripped(f.notes)]

\* (a check that lets an empty direction through)
DirectionOKOrEmpty(direction) == direction \in {DirIN, DirOUT, E}
\* line 532
DirectionOK(direction) == direction \in {DirIN, DirOUT}
\* (a check that forgets the truck)
RequiredPresentNoTruck(v) ==
    /\ v.job_entry # E
    /\ v.material_entry # E
    /\ v.quantity # E
    /\ v.unit # E
\* line 535: all([job_entry, truck_entry, material_entry, quantity, unit])
RequiredPresent(v) ==
    /\ v.job_entry # E
    /\ v.truck_entry # E
    /\ v.material_entry # E
    /\ v.quantity # E
    /\ v.unit # E

\* SELECT ... WHERE id = ? with a text parameter: the row whose integer id the
\* text denotes, or None (0); rows carry the ids 1..Len(table)
SelectById(table, id_text) ==
    IF AllDigits(id_text) /\ DecVal(id_text) \in 1..Len(table)
    THEN DecVal(id_text) ELSE 0

\* lines 539-547: the rows the identifiers resolve to (0: no row)
JobRow(v) == IF v.job_id # E THEN SelectById(jobs_cache, v.job_id) ELSE 0
TruckRow(v) == IF v.truck_id # E THEN SelectById(trucks, v.truck_id) ELSE 0
MaterialRow(v) == IF v.material_id # E THEN SelectById(materials, v.material_id) ELSE 0

\* (the position of the last " - " in s, or 0)
SepPosLast(s) ==
    LET hit(i) == s[i] = " " /\ s[i + 1] = "-" /\ s[i + 2] = " "
        I == {i \in 1..(Len(s) - 2) : hit(i)}
    IN IF I = {} THEN 0 ELSE CHOOSE i \in I : \A j \in I : i >= j
\* position of the first " - " in s, or 0
SepPos(s) ==
    LET hit(i) == s[i] = " " /\ s[i + 1] = "-" /\ s[i + 2] = " "
        I == {i \in 1..(Len(s) - 2) : hit(i)}
    IN IF I = {} THEN 0 ELSE CHOOSE i \in I : \A j \in I : i <= j

\* (a snapshot that always takes the job row's customer)
JobSnapshotRowCustomer(job, job_entry, customer) ==
    IF job # 0
    THEN [id |-> jobs_cache[job].id,
          code |-> jobs_cache[job].job_code,
          name |-> jobs_cache[job].job_name,
          customer |-> strip(jobs_cache[job].customer)]
    ELSE [id |-> 0, code |-> job_entry, name |-> job_entry, customer |-> customer]
\* lines 549-561: job snapshot [id, code, name, customer]
JobSnapshot(job, job_entry, customer) ==
    IF job # 0
    THEN [id |-> jobs_cache[job].id,
          code |-> jobs_cache[job].job_code,
          name |-> jobs_cache[job].job_name,
          customer |-> IF customer = E THEN strip(jobs_cache[job].customer) ELSE customer]
    ELSE IF SepPos(job_entry) # 0
    THEN [id |-> 0,
          code |-> strip(SubSeq(job_entry, 1, SepPos(job_entry) - 1)),
          name |-> strip(SubSeq(job_entry, SepPos(job_entry) + 3, Len(job_entry))),
          customer |-> customer]
    ELSE [id |-> 0, code |-> job_entry, name |-> job_entry, customer |-> customer]

\* lines 563-568
TruckSnapshot(truck, truck_entry) ==
    IF truck # 0
    THEN [id |-> trucks[truck].id, number |-> trucks[truck].truck_number]
    ELSE [id |-> 0, number |-> truck_entry]

\* lines 570-575
MaterialSnapshot(material, material_entry) ==
    IF material # 0
    THEN [id |-> materials[material].id, name |-> materials[material].material_name]
    ELSE [id |-> 0, name |-> material_entry]

\* lines 577-581
QuantityOK(quantity) == IsFloat(quantity)

\* the handler's locals once lines 517-581 have passed
\* (the form is read once: v is the value of Fields(f))
Resolved(f) ==
    LET Locals(v) ==
          LET j == JobSnapshot(JobRow(v), v.job_entry, v.customer)
              t == TruckSnapshot(TruckRow(v), v.truck_entry)
              m == MaterialSnapshot(MaterialRow(v), v.material_entry)
          IN [NoLoc EXCEPT
                !.direction = v.direction,
                !.job_id_value = j.id, !.job_code_snapshot = j.code,
                !.job_name_snapshot = j.name, !.customer = j.customer,
                !.truck_id_value = t.id, !.truck_number_snapshot = t.number,
                !.material_id_value = m.id, !.material_name_snapshot = m.name,
                !.quantity_num = FloatValue(v.quantity), !.unit = v.unit,
                !.notes = v.notes,
                !.auto_print = f.auto_print, !.use_now = f.use_now,
                !.custom_datetime = f.custom_datetime]
    IN CHOOSE l \in {Locals(v) : v \in {Fields(f)}} : TRUE

\* the flash message of a rejected request, or "ok"
Validation(f) ==
    LET Message(v) ==
          IF ~DirectionOK(v.direction) THEN "Direction must be IN or OUT."
          ELSE IF ~RequiredPresent(v)
          THEN "Job, truck, material, quantity, and unit are required."
          ELSE IF ~QuantityOK(v.quantity) THEN "Quantity must be numeric."
          ELSE "ok"
    IN CHOOSE m \in {Message(v) : v \in {Fields(f)}} : TRUE

\* a client POSTs the entry form to /tickets/new on connection c
\* (no new request is taken once cap tickets are stored)
post(c, F, cap) ==
    /\ pc[c] = "idle"
    /\ Len(tickets) < cap
    /\ \E f \in F : form' = [form EXCEPT ![c] = f]
    /\ pc' = [pc EXCEPT ![c] = "posted"]
    /\ UNCHANGED <<db_vars, lock, work, files, year, loc, resp, ext_vars>>

\* new_ticket, lines 514-581: read the form, validate, resolve the references
new_ticket_resolve(c) ==
    /\ pc[c] = "posted"
    /\ IF Validation(form[c]) = "ok"
       THEN /\ pc' = [pc EXCEPT ![c] = "resolved"]
            /\ loc' = [loc EXCEPT ![c] = Resolved(form[c])]
            /\ resp' = resp
       ELSE /\ pc' = [pc EXCEPT ![c] = "teardown"]
            /\ loc' = loc
            /\ resp' = [resp EXCEPT ![c] = Validation(form[c])]
    /\ form' = [form EXCEPT ![c] = NoForm]
    /\ UNCHANGED <<db_vars, lock, work, files, year, ext_vars>>

(* --------------------- new_ticket: the transaction -------------------- *)
\* (a BEGIN that takes no lock)
LockNotTaken == TRUE
\* BEGIN IMMEDIATE takes sqlite's write lock, which one connection holds at a time
LockFree == lock = NoOne

\* line 584: db.execute("BEGIN IMMEDIATE")
begin_immediate(c) ==
    /\ pc[c] = "resolved"
    /\ LockFree
    /\ lock' = c
    /\ work' = [ticket_sequence |-> ticket_sequence, tickets |-> tickets]
    /\ pc' = [pc EXCEPT ![c] = "begun"]
    /\ UNCHANGED <<db_vars, files, year, form, loc, resp, ext_vars>>

\* (a wait for the lock that has no timeout)
BeginWaits(c) == FALSE /\ UNCHANGED vars
\* line 584 when another connection keeps the lock past the busy timeout:
\* OperationalError, caught at 645-647 (rollback of nothing, re-raise)
begin_busy(c) ==
    /\ pc[c] = "resolved"
    /\ ~LockFree
    /\ pc' = [pc EXCEPT ![c] = "teardown"]
    /\ loc' = [loc EXCEPT ![c] = NoLoc]
    /\ resp' = [resp EXCEPT ![c] = "exception: database is locked"]
    /\ UNCHANGED <<db_vars, lock, work, files, year, form, ext_vars>>

\* (a counter row that starts where the newest other year stands)
InsertOrCarry(ts, y) ==
    IF y \in DOMAIN ts \/ DOMAIN ts = {} THEN (IF y \in DOMAIN ts THEN ts ELSE (y :> 0) @@ ts)
    ELSE (y :> ts[CHOOSE z \in DOMAIN ts : \A w \in DOMAIN ts : w <= z]) @@ ts
\* line 139: INSERT OR IGNORE INTO ticket_sequence VALUES (year, 0)
InsertOrIgnore(ts, y) == IF y \in DOMAIN ts THEN ts ELSE (y :> 0) @@ ts
\* (a counter that steps by two)
NextValueSkips(ts, y) == (IF y \in DOMAIN ts THEN ts[y] ELSE 0) + 2
\* lines 140-141: next_value = last_value + 1
NextValue(ts, y) == InsertOrIgnore(ts, y)[y] + 1
\* (an allocation that does not store the value it issued)
UpdateSequenceForgets(ts, y) == InsertOrIgnore(ts, y)
\* line 142: UPDATE ticket_sequence SET last_value = next_value WHERE ticket_year = year
UpdateSequence(ts, y) == [InsertOrIgnore(ts, y) EXCEPT ![y] = NextValue(ts, y)]

\* lines 137-144, called at line 585
next_ticket_number(c) ==
    /\ pc[c] = "begun"
    /\ lock = c
    /\ work' = [work EXCEPT !.ticket_sequence = UpdateSequence(work.ticket_sequence, year)]
    /\ loc' = [loc EXCEPT ![c].ticket_number =
                              TicketNumber(year, NextValue(work.ticket_sequence, year)),
                          ![c].ticket_year = year,
                          ![c].seq = NextValue(work.ticket_sequence, year)]
    /\ pc' = [pc EXCEPT ![c] = "numbered"]
    /\ UNCHANGED <<db_vars, lock, files, year, form, resp, ext_vars>>

\* lines 586-596: created_at, or the flash message of the early return
CreatedAt(l) ==
    IF l.use_now THEN NowIso(year)
    ELSE IF l.custom_datetime = None \/ l.custom_datetime = E
         THEN "Please select a valid date and time."
    ELSE IF ~IsIsoFormat(l.custom_datetime) THEN "Invalid date format."
    ELSE IsoSeconds(l.custom_datetime)
TimestampOK(l) ==
    l.use_now \/ (l.custom_datetime # None /\ l.custom_datetime # E
                  /\ IsIsoFormat(l.custom_datetime))

\* lines 586-596; the two returns leave the handler with the transaction open
new_ticket_timestamp(c) ==
    /\ pc[c] = "numbered"
    /\ IF TimestampOK(loc[c])
       THEN /\ loc' = [loc EXCEPT ![c].created_at = CreatedAt(loc[c])]
            /\ pc' = [pc EXCEPT ![c] = "stamped"]
            /\ resp' = resp
       ELSE /\ loc' = [loc EXCEPT ![c] = NoLoc]
            /\ pc' = [pc EXCEPT ![c] = "teardown"]
            /\ resp' = [resp EXCEPT ![c] = CreatedAt(loc[c])]
    /\ UNCHANGED <<db_vars, lock, work, files, year, form, ext_vars>>

\* lines 598-610: the row handed to the renderer
Row(l) ==
    [ticket_number |-> l.ticket_number, created_at |-> l.created_at,
     direction |-> l.direction, job_code_snapshot |-> l.job_code_snapshot,
     job_name_snapshot |-> l.job_name_snapshot, customer_snapshot |-> l.customer,
     truck_number_snapshot |-> l.truck_number_snapshot,
     material_name_snapshot |-> l.material_name_snapshot,
     quantity |-> l.quantity_num, unit |-> l.unit, notes |-> l.notes]

\* lines 147-...: the document, as the two copies of the fields it draws
to_pdf_bytes(ticket) == <<[copy |-> "driver", ticket |-> ticket],
                          [copy |-> "billing", ticket |-> ticket]>>

\* line 611
new_ticket_render(c) ==
    /\ pc[c] = "stamped"
    /\ loc' = [loc EXCEPT ![c].pdf_bytes = to_pdf_bytes(Row(loc[c]))]
    /\ pc' = [pc EXCEPT ![c] = "rendered"]
    /\ UNCHANGED <<db_vars, lock, work, files, year, form, resp, ext_vars>>

\* lines 343-346: PDF_DIR / str(year) / f"{ticket_number}.pdf"
PdfPath(y, ticket_number) == Str(y) \o <<"/">> \o ticket_number \o <<".", "p", "d", "f">>
\* (a write that leaves a file that is already there as it is)
WriteFileKeeps(fs, path, bytes) == IF path \in DOMAIN fs THEN fs ELSE (path :> bytes) @@ fs
\* lines 347-348: open(pdf_path, "wb").write(pdf_bytes)
WriteFile(fs, path, bytes) == (path :> bytes) @@ fs

\* lines 342-349, called at line 612
save_pdf(c) ==
    /\ pc[c] = "rendered"
    /\ files' = WriteFile(files, PdfPath(year, loc[c].ticket_number), loc[c].pdf_bytes)
    /\ loc' = [loc EXCEPT ![c].pdf_path = PdfPath(year, loc[c].ticket_number)]
    /\ pc' = [pc EXCEPT ![c] = "saved"]
    /\ UNCHANGED <<db_vars, lock, work, year, form, resp, ext_vars>>

\* (a row inserted before the document exists)
TicketRowNoDocument(l, id) ==
    [id |-> id, ticket_number |-> l.ticket_number, ticket_year |-> l.ticket_year,
     ticket_sequence |-> l.seq, direction |-> l.direction, created_at |-> l.created_at,
     job_id |-> l.job_id_value, job_code_snapshot |-> l.job_code_snapshot,
     job_name_snapshot |-> l.job_name_snapshot, customer_snapshot |-> l.customer,
     truck_id |-> l.truck_id_value, truck_number_snapshot |-> l.truck_number_snapshot,
     material_id |-> l.material_id_value,
     material_name_snapshot |-> l.material_name_snapshot,
     quantity |-> l.quantity_num, unit |-> l.unit, notes |-> l.notes,
     pdf_path |-> None, pdf_blob |-> None]
\* lines 615-643: the inserted row; id is the next rowid
TicketRow(l, id) ==
    [id |-> id, ticket_number |-> l.ticket_number, ticket_year |-> l.ticket_year,
     ticket_sequence |-> l.seq, direction |-> l.direction, created_at |-> l.created_at,
     job_id |-> l.job_id_value, job_code_snapshot |-> l.job_code_snapshot,
     job_name_snapshot |-> l.job_name_snapshot, customer_snapshot |-> l.customer,
     truck_id |-> l.truck_id_value, truck_number_snapshot |-> l.truck_number_snapshot,
     material_id |-> l.material_id_value,
     material_name_snapshot |-> l.material_name_snapshot,
     quantity |-> l.quantity_num, unit |-> l.unit, notes |-> l.notes,
     pdf_path |-> l.pdf_path, pdf_blob |-> l.pdf_bytes]

\* (an INSERT OR REPLACE that reuses the newest row's id)
InsertOrReplaceTicket(tk, l) ==
    IF tk = <<>> THEN <<TicketRow(l, 1)>>
    ELSE [tk EXCEPT ![Len(tk)] = TicketRow(l, Len(tk))]
\* INSERT INTO tickets (...) VALUES (...): a new row after the existing ones
InsertTicket(tk, l) == Append(tk, TicketRow(l, Len(tk) + 1))

\* lines 615-643
insert_ticket(c) ==
    /\ pc[c] = "saved"
    /\ lock = c
    /\ work' = [work EXCEPT !.tickets = InsertTicket(@, loc[c])]
    /\ pc' = [pc EXCEPT ![c] = "inserted"]
    /\ UNCHANGED <<db_vars, lock, files, year, form, loc, resp, ext_vars>>

\* db.commit(): the working copy becomes the committed tables
Commit == work
\* (a rollback that keeps the counter update)
RollbackKeepsCounter == [ticket_sequence |-> work.ticket_sequence, tickets |-> tickets]
\* db.rollback(), or closing the connection: the committed tables stand
Rollback == [ticket_sequence |-> ticket_sequence, tickets |-> tickets]

\* line 644: db.commit()
commit_ticket(c) ==
    /\ pc[c] = "inserted"
    /\ lock = c
    /\ ticket_sequence' = Commit.ticket_sequence
    /\ tickets' = Commit.tickets
    /\ lock' = NoOne
    /\ work' = NoWork
    /\ pc' = [pc EXCEPT ![c] = "committed"]
    /\ UNCHANGED <<jobs_cache, trucks, materials, files, year, form, loc, resp, ext_vars>>

\* the statement that raises when the handler stands at p
Raises(p) ==
    CASE p = "begun" -> "exception: next_ticket_number"
      [] p = "stamped" -> "exception: to_pdf_bytes"
      [] p = "rendered" -> "exception: save_pdf"
      [] p = "saved" -> "exception: insert"
      [] p = "inserted" -> "exception: commit"

\* lines 645-647: except Exception: db.rollback(); raise
new_ticket_except(c) ==
    /\ pc[c] \in {"begun", "stamped", "rendered", "saved", "inserted"}
    /\ lock = c
    /\ ticket_sequence' = Rollback.ticket_sequence
    /\ tickets' = Rollback.tickets
    /\ lock' = NoOne
    /\ work' = NoWork
    /\ pc' = [pc EXCEPT ![c] = "teardown"]
    /\ loc' = [loc EXCEPT ![c] = NoLoc]
    /\ resp' = [resp EXCEPT ![c] = Raises(pc[c])]
    /\ UNCHANGED <<jobs_cache, trucks, materials, files, year, form, ext_vars>>

\* (a print failure that takes the ticket back out)
PrintFailureUnwinds(c) ==
    /\ pc[c] = "committed"
    /\ \/ /\ resp' = [resp EXCEPT ![c] = "Ticket created."]
          /\ tickets' = tickets
       \/ /\ loc[c].auto_print
          /\ resp' = [resp EXCEPT ![c] = "Ticket saved, but print failed"]
          /\ tickets' = SubSeq(tickets, 1, Len(tickets) - 1)
    /\ pc' = [pc EXCEPT ![c] = "teardown"]
    /\ loc' = [loc EXCEPT ![c] = NoLoc]
    /\ UNCHANGED <<ticket_sequence, jobs_cache, trucks, materials, lock, work, files,
                   year, form, ext_vars>>
\* lines 649-658: the optional print after the commit; print_pdf_file (352-355)
\* raises off Windows and may raise on it
new_ticket_print(c) ==
    /\ pc[c] = "committed"
    /\ \/ resp' = [resp EXCEPT ![c] = "Ticket created."]
       \/ /\ loc[c].auto_print
          /\ resp' = [resp EXCEPT ![c] = "Ticket saved, but print failed"]
    /\ pc' = [pc EXCEPT ![c] = "teardown"]
    /\ loc' = [loc EXCEPT ![c] = NoLoc]
    /\ UNCHANGED <<db_vars, lock, work, files, year, form, ext_vars>>

\* (a close that commits the transaction the handler left open)
CloseDbCommits(c) ==
    /\ pc[c] = "teardown"
    /\ IF lock = c
       THEN /\ ticket_sequence' = Commit.ticket_sequence
            /\ tickets' = Commit.tickets
            /\ lock' = NoOne
            /\ work' = NoWork
       ELSE UNCHANGED <<ticket_sequence, tickets, lock, work>>
    /\ pc' = [pc EXCEPT ![c] = "idle"]
    /\ resp' = [resp EXCEPT ![c] = NoResp]
    /\ view' = NoView
    /\ UNCHANGED <<jobs_cache, trucks, materials, files, year, form, loc, source, sync>>
\* lines 88-92: the connection is closed when the request ends; closing it
\* rolls back a transaction the handler left open
close_db(c) ==
    /\ pc[c] = "teardown"
    /\ IF lock = c
       THEN /\ ticket_sequence' = Rollback.ticket_sequence
            /\ tickets' = Rollback.tickets
            /\ lock' = NoOne
            /\ work' = NoWork
       ELSE UNCHANGED <<ticket_sequence, tickets, lock, work>>
    /\ pc' = [pc EXCEPT ![c] = "idle"]
    /\ resp' = [resp EXCEPT ![c] = NoResp]
    /\ view' = NoView
    /\ UNCHANGED <<jobs_cache, trucks, materials, files, year, form, loc, source, sync>>

\* the calendar year turns
new_year ==
    /\ year < FirstYear + MaxYearTicks
    /\ year' = year + 1
    /\ UNCHANGED <<db_vars, lock, work, files, req_vars, ext_vars>>

new_ticket(c) ==
    \/ new_ticket_resolve(c)
    \/ begin_immediate(c)
    \/ next_ticket_number(c)
    \/ new_ticket_timestamp(c)
    \/ new_ticket_render(c)
    \/ save_pdf(c)
    \/ insert_ticket(c)
    \/ commit_ticket(c)
    \/ new_ticket_except(c)
    \/ new_ticket_print(c)
    \/ close_db(c)

(* ------- concurrent ticket creation on two connections ---------------- *)
Next ==
    \/ \E c \in Conns : post(c, CoreForms, MaxTickets)
    \/ \E c \in Conns : new_ticket(c)
    \/ \E c \in Conns : begin_busy(c)
    \/ new_year

Spec == Init /\ [][Next]_vars

(* ------------------ reference data: trucks, materials ----------------- *)
T7 == <<"T", "7">>
Sand == <<"S", "a", "n", "d">>
J200 == <<"J", "2", "0", "0">>
Elm == <<"E", "l", "m">>
Oak == <<"O", "a", "k">>
Bob == <<"B", "o", "b">>

\* UNIQUE column: the INSERT raises IntegrityError when the value is taken
Taken(table, col, value) == \E i \in 1..Len(table) : table[i][col] = value

\* UPDATE ... SET active = CASE WHEN active = 1 THEN 0 ELSE 1 END WHERE id = ?
ToggleActive(table, id) ==
    [i \in 1..Len(table) |->
        IF table[i].id = id
        THEN [table[i] EXCEPT !.active = IF @ = 1 THEN 0 ELSE 1]
        ELSE table[i]]

\* admin_trucks POST, lines 1094-1111 (description, size and hauler are display
\* fields no other operation reads)
admin_trucks(truck_number) ==
    /\ LockFree
    /\ strip(truck_number) # E
    /\ ~Taken(trucks, "truck_number", strip(truck_number))
    /\ trucks' = Append(trucks, [id |-> Len(trucks) + 1,
                                 truck_number |-> strip(truck_number), active |-> 1])
    /\ UNCHANGED <<ticket_sequence, tickets, jobs_cache, materials, lock, work,
                   files, year, req_vars, ext_vars>>

\* toggle_truck, lines 1119-1124
toggle_truck(truck_id) ==
    /\ LockFree
    /\ trucks' = ToggleActive(trucks, truck_id)
    /\ UNCHANGED <<ticket_sequence, tickets, jobs_cache, materials, lock, work,
                   files, year, req_vars, ext_vars>>

\* admin_materials POST, lines 1130-1144
admin_materials(material_name) ==
    /\ LockFree
    /\ strip(material_name) # E
    /\ ~Taken(materials, "material_name", strip(material_name))
    /\ materials' = Append(materials, [id |-> Len(materials) + 1,
                                       material_name |-> strip(material_name),
                                       active |-> 1])
    /\ UNCHANGED <<ticket_sequence, tickets, jobs_cache, trucks, lock, work,
                   files, year, req_vars, ext_vars>>

\* toggle_material, lines 1150-1155
toggle_material(material_id) ==
    /\ LockFree
    /\ materials' = ToggleActive(materials, material_id)
    /\ UNCHANGED <<ticket_sequence, tickets, jobs_cache, trucks, lock, work,
                   files, year, req_vars, ext_vars>>

(* ----------------------------- jobs sync ------------------------------ *)
\* (an insert that does not look for the code)
InsertJobRow(jc, r, refreshed_at) ==
    Append(jc, [id |-> Len(jc) + 1, job_code |-> r.job_code,
                job_name |-> r.job_name, customer |-> r.customer,
                active |-> r.active, source_updated_at |-> r.source_updated_at,
                refreshed_at |-> refreshed_at])
\* (an upsert that leaves the customer of a known code alone)
UpsertKeepsCustomer(jc, r, refreshed_at) ==
    IF Taken(jc, "job_code", r.job_code)
    THEN [i \in 1..Len(jc) |->
            IF jc[i].job_code = r.job_code
            THEN [jc[i] EXCEPT !.job_name = r.job_name, !.active = r.active,
                               !.source_updated_at = r.source_updated_at,
                               !.refreshed_at = refreshed_at]
            ELSE jc[i]]
    ELSE InsertJobRow(jc, r, refreshed_at)
\* lines 358-371: INSERT ... ON CONFLICT(job_code) DO UPDATE SET ...
upsert_job_cache_row(jc, r, refreshed_at) ==
    IF Taken(jc, "job_code", r.job_code)
    THEN [i \in 1..Len(jc) |->
            IF jc[i].job_code = r.job_code
            THEN [jc[i] EXCEPT !.job_name = r.job_name, !.customer = r.customer,
                               !.active = r.active,
                               !.source_updated_at = r.source_updated_at,
                               !.refreshed_at = refreshed_at]
            ELSE jc[i]]
    ELSE Append(jc, [id |-> Len(jc) + 1, job_code |-> r.job_code,
                     job_name |-> r.job_name, customer |-> r.customer,
                     active |-> r.active, source_updated_at |-> r.source_updated_at,
                     refreshed_at |-> refreshed_at])

\* lines 406-434 / 463-480: every row of the pull is merged, in order
RECURSIVE MergeRows(_, _, _)
MergeRows(jc, rows, refreshed_at) ==
    IF rows = <<>> THEN jc
    ELSE MergeRows(upsert_job_cache_row(jc, Head(rows), refreshed_at), Tail(rows),
                   refreshed_at)

\* pulls of the external job list: the job as first seen, then renamed and retired
JobPulls ==
    { <<[job_code |-> J200, job_name |-> Elm, customer |-> Acme, active |-> 1,
         source_updated_at |-> None]>>,
      <<[job_code |-> J200, job_name |-> Oak, customer |-> E, active |-> 0,
         source_updated_at |-> None]>> }

\* refresh_jobs, lines 669-679: merge the pull and commit
refresh_jobs(rows) ==
    /\ LockFree
    /\ jobs_cache' = MergeRows(jobs_cache, rows, NowIso(year))
    /\ UNCHANGED <<ticket_sequence, tickets, trucks, materials, lock, work,
                   files, year, req_vars, ext_vars>>

(* ------------------- jobs sync, statement by statement ---------------- *)
\* --- the source ---
DefaultPath == <<"d", "a", "t", "a", "/", "j", "o", "b", "s", ".", "c", "s", "v">>
DrivePath == <<"G", ":", "/", "J", "o", "b", "s", ".", "c", "s", "v">>
\* os.getenv(name, "").strip()
GetEnv(v) == IF v = None THEN E ELSE strip(v)
\* lines 62-72: the configured path alone when one is configured, else the two
\* default paths (a relative configured path is taken under BASE_DIR, which the
\* model's paths are relative to)
Candidates(src) ==
    IF GetEnv(src.JOBS_CSV_PATH) # E THEN <<GetEnv(src.JOBS_CSV_PATH)>>
    ELSE <<DefaultPath, DrivePath>>
\* lines 74-77: the first candidate that exists, or None
resolve_jobs_csv_path(src) ==
    LET c == Candidates(src)
        I == {i \in 1..Len(c) : c[i] \in DOMAIN src.files}
    IN IF I = {} THEN None ELSE c[CHOOSE i \in I : \A j \in I : i <= j]

\* lines 386-390
first_present(fieldnames, names) ==
    LET I == {i \in 1..Len(names) : \E k \in 1..Len(fieldnames) : fieldnames[k] = names[i]}
    IN IF I = {} THEN NoCol ELSE names[CHOOSE i \in I : \A j \in I : i <= j]
\* lines 392-396
Columns(fieldnames) ==
    [job_code_col |-> first_present(fieldnames, <<"job_code", "Job #", "Job#", "Job Number">>),
     job_name_col |-> first_present(fieldnames, <<"job_name", "Job Name">>),
     customer_col |-> first_present(fieldnames, <<"customer", "Customer Name">>),
     active_col |-> first_present(fieldnames, <<"active", "Job Status">>),
     source_updated_at_col |-> first_present(fieldnames, <<"source_updated_at">>)]
\* (a check that asks for the code column only)
MissingCodeOnly(cols) == cols.job_code_col = NoCol
\* lines 398-403: a required column was found under none of its names
MissingColumns(cols) == cols.job_code_col = NoCol \/ cols.job_name_col = NoCol

\* str(row.get(col) or "").strip(); a column the row does not have reads as None
Cell(row, col) == IF col \in DOMAIN row /\ row[col] # None THEN strip(row[col]) ELSE E
\* int(text), for an optional sign and digits
IsInt(s) == AllDigits(Unsigned(s))
IntValue(s) == IF Head(s) = "-" THEN 0 - DecVal(Unsigned(s)) ELSE DecVal(Unsigned(s))
\* (a flag that is read as a number whatever the column is called)
ActiveAsNumber(row, cols) ==
    LET active_raw == IF cols.active_col # NoCol THEN Cell(row, cols.active_col) ELSE E IN
    IF active_raw = E THEN 1
    ELSE IF IsInt(active_raw) THEN IntValue(active_raw) ELSE 1
\* lines 413-420
ActiveOfCsv(row, cols) ==
    LET active_raw == IF cols.active_col # NoCol THEN Cell(row, cols.active_col) ELSE E IN
    IF cols.active_col = "Job Status"
    THEN IF upper(active_raw) = <<"A">> THEN 1 ELSE 0
    ELSE IF active_raw = E THEN 1
    ELSE IF IsInt(active_raw) THEN IntValue(active_raw) ELSE 1
\* lines 407-423: the values a data row is upserted with
ParseCsvRow(row, cols) ==
    [job_code |-> Cell(row, cols.job_code_col),
     job_name |-> Cell(row, cols.job_name_col),
     customer |-> IF cols.customer_col # NoCol THEN Cell(row, cols.customer_col) ELSE E,
     active |-> ActiveOfCsv(row, cols),
     source_updated_at |->
        IF cols.source_updated_at_col # NoCol
              /\ Cell(row, cols.source_updated_at_col) # E
        THEN Cell(row, cols.source_updated_at_col) ELSE None]
\* str(value) of a text or of None
PyStr(v) == IF v = None THEN <<"N", "o", "n", "e">> ELSE v
\* lines 464-470: the values a row of the remote query is upserted with (the
\* integer column active is written as its digits)
ParseRemoteRow(row) ==
    [job_code |-> strip(PyStr(row.job_code)),
     job_name |-> IF row.job_name # None THEN strip(PyStr(row.job_name)) ELSE E,
     customer |-> IF row.customer # None THEN strip(PyStr(row.customer)) ELSE E,
     active |-> IF row.active # None THEN IntValue(row.active) ELSE 1,
     source_updated_at |-> row.source_updated_at]

\* --- the handler ---
SyncConn == "sync"
Remote == <<"odbc">>
\* the sync ends without a commit: what is kept of it is its outcome
Ended(trigger, chosen, result) ==
    [NoSync EXCEPT !.trigger = trigger, !.chosen = chosen, !.result = result,
                   !.last = sync.last]
\* lines 374-404 and 438-460: the source is picked and opened; the sync either
\* fails here or stands before its first row
Opened(trigger) ==
    LET csv_file == resolve_jobs_csv_path(source)
        running == [NoSync EXCEPT !.pc = "rows", !.trigger = trigger, !.jobs = jobs_cache,
                                  !.result = "running", !.last = sync.last]
    IN IF csv_file # None
       THEN LET fieldnames == source.files[csv_file].fieldnames IN
            IF fieldnames = <<>>
            THEN Ended(trigger, csv_file, "failed: CSV is missing a header row.")
            ELSE IF MissingColumns(Columns(fieldnames))
            THEN Ended(trigger, csv_file, "failed: CSV missing required columns")
            ELSE [running EXCEPT !.chosen = csv_file, !.cols = Columns(fieldnames)]
       ELSE IF source.REMOTE_SQL_ODBC_CONNECTION_STRING \in {None, E}
       THEN Ended(trigger, None, "failed: No jobs source found.")
       ELSE IF ~source.remote_up
       THEN Ended(trigger, Remote, "failed: remote connection")
       ELSE [running EXCEPT !.chosen = Remote, !.rows = source.remote_rows]

\* the process is restarted under environment s, with the sources as s has them
restart(s, flag) ==
    /\ sync.pc = "idle"
    /\ \A c \in Conns : pc[c] = "idle"
    /\ source' = [s EXCEPT !.AUTO_REFRESH_JOBS_ON_STARTUP = flag]
    /\ sync' = [sync EXCEPT !.pc = "boot"]
    /\ UNCHANGED <<db_vars, lock, work, files, year, req_vars, view>>

\* lines 120-134, up to the first row
refresh_jobs_on_startup ==
    /\ sync.pc = "boot"
    /\ LET auto_refresh ==
              lower(IF source.AUTO_REFRESH_JOBS_ON_STARTUP = None THEN <<"1">>
                    ELSE strip(source.AUTO_REFRESH_JOBS_ON_STARTUP))
       IN IF auto_refresh \in {<<"1">>, <<"t", "r", "u", "e">>, <<"y", "e", "s">>, <<"o", "n">>}
          THEN sync' = Opened("startup")
          ELSE sync' = Ended("startup", None, "disabled")
    /\ UNCHANGED <<db_vars, lock, work, files, year, req_vars, source, view>>

\* POST /jobs/refresh, lines 669-672, up to the first row
refresh_jobs_begin ==
    /\ sync.pc = "idle"
    /\ sync' = Opened("request")
    /\ UNCHANGED <<db_vars, lock, work, files, year, req_vars, source, view>>

\* the data rows of the open source, and how many of them can be read
SyncRows == IF sync.chosen = Remote THEN sync.rows ELSE source.files[sync.chosen].rows
Readable == IF sync.chosen = Remote THEN Len(sync.rows)
            ELSE source.files[sync.chosen].readable
\* the values the next row is upserted with
NextRow ==
    IF sync.chosen = Remote THEN ParseRemoteRow(SyncRows[sync.next + 1])
    ELSE ParseCsvRow(SyncRows[sync.next + 1], sync.cols)
\* (a loop that merges every row)
NeverSkipped == FALSE
\* lines 408-409: a row of the file without a code is passed over
Skipped == sync.chosen # Remote /\ NextRow.job_code = E

\* lines 406-434 and 463-480: one turn of the loop; the first upsert opens the
\* connection's transaction and takes the write lock
refresh_jobs_cache_row ==
    /\ sync.pc = "rows"
    /\ sync.next < Len(SyncRows)
    /\ sync.next < Readable
    /\ IF Skipped
       THEN /\ sync' = [sync EXCEPT !.next = @ + 1]
            /\ UNCHANGED lock
       ELSE /\ sync.wrote \/ LockFree
            /\ lock' = SyncConn
            /\ sync' = [sync EXCEPT !.next = @ + 1, !.wrote = TRUE, !.synced = @ + 1,
                           !.jobs = upsert_job_cache_row(@, NextRow, NowIso(year))]
    /\ UNCHANGED <<db_vars, work, files, year, req_vars, source, view>>

\* (a rollback that keeps what the sync has upserted)
SyncKeepsUpserts == sync.jobs
\* db.rollback(): the committed cache stands
SyncRollback == jobs_cache

\* lines 673-674 (and 128-130): the loop is over, db.commit()
refresh_jobs_commit ==
    /\ sync.pc = "rows"
    /\ sync.next = Len(SyncRows)
    /\ jobs_cache' = IF sync.wrote THEN sync.jobs ELSE jobs_cache
    /\ lock' = IF sync.wrote THEN NoOne ELSE lock
    /\ sync' = [NoSync EXCEPT !.trigger = sync.trigger, !.chosen = sync.chosen,
                              !.synced = sync.synced, !.result = "complete",
                              !.last = source, !.again = (sync.last = source)]
    /\ UNCHANGED <<ticket_sequence, tickets, trucks, materials, work, files, year,
                   req_vars, source, view>>

\* lines 676-678 (and 131-133): an exception after the source was opened (a row
\* that cannot be read, a locked database, a failing statement or commit),
\* db.rollback()
refresh_jobs_except ==
    /\ sync.pc = "rows"
    /\ jobs_cache' = SyncRollback
    /\ lock' = IF sync.wrote THEN NoOne ELSE lock
    /\ sync' = [Ended(sync.trigger, sync.chosen, "failed: exception")
                   EXCEPT !.synced = sync.synced]
    /\ UNCHANGED <<ticket_sequence, tickets, trucks, materials, work, files, year,
                   req_vars, source, view>>

(* ------------------------- read-only endpoints ------------------------ *)
\* the query string of a report request; None is a parameter it does not carry
NoArgs ==
    [date_from |-> None, date_to |-> None, direction |-> None, job_id |-> None,
     material_id |-> None, offset |-> None]
\* request.args.get(name, "")
Arg(v) == IF v = None THEN E ELSE v

\* --- dates ---
WindowDays == 14
IsLeap(y) == (y % 4 = 0 /\ y % 100 # 0) \/ y % 400 = 0
DaysBeforeYear(y) == 365 * (y - 1) + (y - 1) \div 4 - (y - 1) \div 100 + (y - 1) \div 400
RECURSIVE DaysBeforeMonth(_, _)
DaysBeforeMonth(y, m) == IF m = 1 THEN 0 ELSE DaysBeforeMonth(y, m - 1) + DaysIn(y, m - 1)
\* date.toordinal()
ToOrdinal(y, m, d) == DaysBeforeYear(y) + DaysBeforeMonth(y, m) + d
\* date.isoformat()
IsoDate(y, m, d) ==
    ZeroPad(Str(y), 4) \o <<"-">> \o ZeroPad(Str(m), 2) \o <<"-">> \o ZeroPad(Str(d), 2)
\* date.fromordinal(n).isoformat()
FromOrdinal(n) ==
    LET y == CHOOSE yy \in (n \div 366)..(n \div 365 + 1) :
                 DaysBeforeYear(yy) < n /\ n <= DaysBeforeYear(yy + 1)
        r == n - DaysBeforeYear(y)
        m == CHOOSE mm \in 1..12 :
                 DaysBeforeMonth(y, mm) < r /\ r <= DaysBeforeMonth(y, mm) + DaysIn(y, mm)
    IN IsoDate(y, m, r - DaysBeforeMonth(y, m))
\* datetime.now().date().isoformat()
Today(y) == SubSeq(NowIso(y), 1, 10)
\* (date - timedelta(days=n)).isoformat(), for the text of a date
DateMinusDays(date, n) ==
    FromOrdinal(ToOrdinal(Num(date, 1, 4), Num(date, 6, 7), Num(date, 9, 10)) - n)

\* sqlite's date(text): the date part of YYYY-MM-DD, YYYY-MM-DD HH:MM,
\* YYYY-MM-DDTHH:MM and YYYY-MM-DDTHH:MM:SS, and NULL (None) for a text that is
\* no time value (sqlite's other time formats are outside the model's inputs)
IsSeconds(s) ==
    /\ Len(s) = 19
    /\ s[17] = ":"
    /\ s[18] \in Digit /\ s[19] \in Digit
    /\ Num(s, 18, 19) \in 0..59
IsTimeValue(s) ==
    \/ IsIsoFormat(s)
    \/ IsSeconds(s) /\ IsIsoFormat(SubSeq(s, 1, 16))
SqlDate(s) == IF IsTimeValue(s) THEN SubSeq(s, 1, 10) ELSE None

\* lines 40-53: format_ticket_datetime, "%m-%d-%Y - %H:%M"
format_ticket_datetime(value) ==
    IF value = None THEN E
    ELSE LET text == strip(value) IN
         IF text = E THEN E
         ELSE IF ~IsTimeValue(text) THEN text
         ELSE SubSeq(text, 6, 7) \o <<"-">> \o SubSeq(text, 9, 10) \o <<"-">>
                \o SubSeq(text, 1, 4) \o <<" ", "-", " ">>
                \o (IF Len(text) = 10 THEN <<"0", "0", ":", "0", "0">>
                    ELSE SubSeq(text, 12, 16))
\* f"{x:.2f}" of a quantity kept in hundredths
Format2f(h) ==
    LET a == IF h < 0 THEN 0 - h ELSE h IN
    (IF h < 0 THEN <<"-">> ELSE E) \o Str(a \div 100) \o <<".">> \o ZeroPad(Str(a % 100), 2)

\* --- the filters each endpoint reads from the query string ---
\* reports, lines 721-729: trimmed, direction upper-cased, and the last 14 days
\* through today when neither date is given
ReportFilters(a, y) ==
    LET date_from == strip(Arg(a.date_from))
        date_to == strip(Arg(a.date_to))
        default == date_from = E /\ date_to = E
    IN [date_from |-> IF default THEN DateMinusDays(Today(y), WindowDays) ELSE date_from,
        date_to |-> IF default THEN Today(y) ELSE date_to,
        direction |-> upper(strip(Arg(a.direction))),
        job_id |-> strip(Arg(a.job_id)),
        material_id |-> strip(Arg(a.material_id))]
\* export_reports_csv, lines 825-829: trimmed, direction upper-cased
ExportFilters(a) ==
    [date_from |-> strip(Arg(a.date_from)),
     date_to |-> strip(Arg(a.date_to)),
     direction |-> upper(strip(Arg(a.direction))),
     job_id |-> strip(Arg(a.job_id)),
     material_id |-> strip(Arg(a.material_id))]
\* print_reports, lines 961-965: as received
PrintFilters(a) ==
    [date_from |-> Arg(a.date_from),
     date_to |-> Arg(a.date_to),
     direction |-> Arg(a.direction),
     job_id |-> Arg(a.job_id),
     material_id |-> Arg(a.material_id)]
\* int(request.args.get("offset", 0)), for an absent offset or a digit text
Offset(a) == IF a.offset = None THEN 0 ELSE DecVal(a.offset)

\* t.job_id = ? with a text parameter: true when the column is not NULL (0) and
\* the text denotes its value
SqlIdEquals(column, id_text) ==
    column # 0 /\ AllDigits(id_text) /\ DecVal(id_text) = column
\* date(t.created_at) >= date(?): a comparison with NULL is not true
SqlDateLessEq(a, b) ==
    SqlDate(a) # None /\ SqlDate(b) # None /\ StrLessEq(SqlDate(a), SqlDate(b))
\* lines 731-750 (and the same text at 831-850 and 967-990): the WHERE clause
Where(t, p) ==
    /\ p.date_from # E => SqlDateLessEq(p.date_from, t.created_at)
    /\ p.date_to # E => SqlDateLessEq(t.created_at, p.date_to)
    /\ p.direction \in {DirIN, DirOUT} => t.direction = p.direction
    /\ p.job_id # E => SqlIdEquals(t.job_id, p.job_id)
    /\ p.material_id # E => SqlIdEquals(t.material_id, p.material_id)
\* FROM tickets t WHERE ...
Filtered(tk, p) == {tk[i] : i \in {j \in 1..Len(tk) : Where(tk[j], p)}}

\* --- the three SELECTs ---
PageSize == 20
ExportLimit == 1000
\* LIMIT n OFFSET k
LimitOffset(rows, n, k) ==
    IF k >= Len(rows) THEN <<>>
    ELSE SubSeq(rows, k + 1, IF k + n < Len(rows) THEN k + n ELSE Len(rows))
\* CASE WHEN direction = 'IN' THEN 1 WHEN direction = 'OUT' THEN 2 ELSE 3 END
DirectionRank(d) == IF d = DirIN THEN 1 ELSE IF d = DirOUT THEN 2 ELSE 3
\* the same CASE without ELSE (lines 999-1002): NULL, which sorts first
DirectionRankPrint(d) == IF d = DirIN THEN 1 ELSE IF d = DirOUT THEN 2 ELSE 0
\* (newest first, whatever the customer and the direction)
NewestFirst(t, u) == t.id > u.id
\* ORDER BY t.customer_snapshot ASC, CASE ... END, t.id DESC (lines 769-776)
ReportOrder(t, u) ==
    \/ StrLess(t.customer_snapshot, u.customer_snapshot)
    \/ /\ t.customer_snapshot = u.customer_snapshot
       /\ \/ DirectionRank(t.direction) < DirectionRank(u.direction)
          \/ /\ DirectionRank(t.direction) = DirectionRank(u.direction)
             /\ t.id > u.id
\* lines 997-1003
PrintOrder(t, u) ==
    \/ StrLess(t.customer_snapshot, u.customer_snapshot)
    \/ /\ t.customer_snapshot = u.customer_snapshot
       /\ \/ DirectionRankPrint(t.direction) < DirectionRankPrint(u.direction)
          \/ /\ DirectionRankPrint(t.direction) = DirectionRankPrint(u.direction)
             /\ t.id > u.id
\* ORDER BY t.id DESC (line 867)
ExportOrder(t, u) == t.id > u.id

\* the columns lines 756-766 select
ReportRow(t) ==
    [id |-> t.id, ticket_number |-> t.ticket_number, created_at |-> t.created_at,
     direction |-> t.direction, job_code_snapshot |-> t.job_code_snapshot,
     job_name_snapshot |-> t.job_name_snapshot,
     customer_snapshot |-> t.customer_snapshot,
     material_name_snapshot |-> t.material_name_snapshot,
     truck_number_snapshot |-> t.truck_number_snapshot,
     quantity |-> t.quantity, unit |-> t.unit]
Project(rows, Column(_)) == [i \in 1..Len(rows) |-> Column(rows[i])]

\* SUM(t.quantity) over a set of rows
RECURSIVE SumQuantity(_)
SumQuantity(S) ==
    IF S = {} THEN 0
    ELSE LET t == CHOOSE x \in S : TRUE IN t.quantity + SumQuantity(S \ {t})
\* SELECT t.unit, COALESCE(SUM(t.quantity), 0) ... GROUP BY t.unit
GroupByUnit(S) ==
    {[unit |-> u, total_quantity |-> SumQuantity({t \in S : t.unit = u})] :
        u \in {t.unit : t \in S}}
\* SELECT t.material_name_snapshot, t.unit, COALESCE(SUM(t.quantity), 0) ...
\* GROUP BY t.material_name_snapshot, t.unit
GroupByMaterial(S) ==
    {[material_name_snapshot |-> k[1], unit |-> k[2],
      total_quantity |-> SumQuantity({t \in S : t.material_name_snapshot = k[1]
                                                /\ t.unit = k[2]})] :
        k \in {<<t.material_name_snapshot, t.unit>> : t \in S}}
\* ORDER BY t.unit
UnitOrder(g, h) == StrLess(g.unit, h.unit)
\* ORDER BY t.material_name_snapshot, t.unit
MaterialOrder(g, h) ==
    \/ StrLess(g.material_name_snapshot, h.material_name_snapshot)
    \/ g.material_name_snapshot = h.material_name_snapshot /\ StrLess(g.unit, h.unit)
\* (totals of the rows of the returned page only)
TotalsOfPage(tk, p, k) ==
    LET page == LimitOffset(SortSet(Filtered(tk, p), ReportOrder), PageSize, k)
    IN {page[i] : i \in 1..Len(page)}
\* the rows the two totals queries aggregate (lines 782-802): the WHERE clause
\* alone, without LIMIT and OFFSET
TotalsOver(tk, p, k) == Filtered(tk, p)

\* reports, lines 719-819: what the template is rendered with
ReportsBody(a, tk, y) ==
    LET p == ReportFilters(a, y)
        S == TotalsOver(tk, p, Offset(a))
    IN [endpoint |-> "reports", args |-> a, filters |-> p, offset |-> Offset(a),
        tickets |-> Project(LimitOffset(SortSet(Filtered(tk, p), ReportOrder),
                                        PageSize, Offset(a)), ReportRow),
        totals_by_unit |-> SortSet(GroupByUnit(S), UnitOrder),
        totals_by_material |-> SortSet(GroupByMaterial(S), MaterialOrder)]

\* lines 912-926: one line of the export, field by field (the writer's quoting
\* of a field is not modelled)
CsvRow(t) ==
    <<t.ticket_number, format_ticket_datetime(t.created_at), t.direction,
      t.job_code_snapshot, t.job_name_snapshot, t.customer_snapshot,
      t.truck_number_snapshot, t.material_name_snapshot, Format2f(t.quantity), t.unit>>
\* line 932
CsvUnitRow(g) == <<g.unit, Format2f(g.total_quantity)>>
\* lines 938-944
CsvMaterialRow(g) == <<g.material_name_snapshot, g.unit, Format2f(g.total_quantity)>>
\* export_reports_csv, lines 823-956: the lines written after each heading
ExportBody(a, tk) ==
    LET p == ExportFilters(a)
        S == Filtered(tk, p)
    IN [endpoint |-> "export_reports_csv", args |-> a, filters |-> p,
        tickets |-> Project(LimitOffset(SortSet(S, ExportOrder), ExportLimit, 0), CsvRow),
        totals_by_unit |-> Project(SortSet(GroupByUnit(S), UnitOrder), CsvUnitRow),
        totals_by_material |->
            Project(SortSet(GroupByMaterial(S), MaterialOrder), CsvMaterialRow)]

\* lines 275-284: one line of the printed table
PdfRow(t) ==
    <<t.ticket_number, format_ticket_datetime(t.created_at), t.customer_snapshot,
      t.direction, t.material_name_snapshot, Format2f(t.quantity), t.unit>>
\* lines 250-340: the three tables of the printed report; the two GROUP BY
\* queries of print_reports ask for no order, so each totals table is kept as
\* the set of its lines
report_to_pdf_bytes(rows, totals_by_unit, totals_by_material) ==
    [table_data |-> Project(rows, PdfRow),
     totals_by_unit |-> {CsvUnitRow(g) : g \in totals_by_unit},
     totals_by_material |-> {CsvMaterialRow(g) : g \in totals_by_material}]
\* print_reports, lines 958-1057
PrintBody(a, tk) ==
    LET p == PrintFilters(a)
        S == Filtered(tk, p)
        rows == SortSet(S, PrintOrder)
    IN [endpoint |-> "print_reports", args |-> a, filters |-> p,
        tickets |-> Project(rows, ReportRow),
        pdf |-> report_to_pdf_bytes(rows, GroupByUnit(S), GroupByMaterial(S))]

\* a GET of a report on connection c: the handler runs its three SELECTs on the
\* committed tables and answers; the connection is closed at teardown
reports(c, a) ==
    /\ pc[c] = "idle"
    /\ view' = ReportsBody(a, tickets, year)
    /\ pc' = [pc EXCEPT ![c] = "teardown"]
    /\ UNCHANGED <<db_vars, lock, work, files, year, form, loc, resp, source, sync>>

export_reports_csv(c, a) ==
    /\ pc[c] = "idle"
    /\ view' = ExportBody(a, tickets)
    /\ pc' = [pc EXCEPT ![c] = "teardown"]
    /\ UNCHANGED <<db_vars, lock, work, files, year, form, loc, resp, source, sync>>

\* (the file written to reports_pdf/ is read by no operation and is left out)
print_reports(c, a) ==
    /\ pc[c] = "idle"
    /\ view' = PrintBody(a, tickets)
    /\ pc' = [pc EXCEPT ![c] = "teardown"]
    /\ UNCHANGED <<db_vars, lock, work, files, year, form, loc, resp, source, sync>>

\* print_ticket (1075-1088): reads one ticket's file and prints it
print_ticket == UNCHANGED vars

(* --------- one connection, the whole range of entry forms ------------- *)
Vary(field, values) == {[BaseForm EXCEPT ![field] = v] : v \in values}
EntryForms ==
    {BaseForm}
    \cup Vary("direction", {DirOUT, <<"i", "n">>, <<" ", "O", "U", "T", " ">>,
                            <<"X">>, <<"I", "N", "X">>, E, None})
    \cup Vary("job_entry", {E, None, Blank, J100, JobTwoSeps, JobWideSep})
    \cup Vary("truck_entry", {E, None, Blank})
    \cup Vary("material_entry", {E, None, Blank})
    \cup Vary("quantity", {E, None, Blank, <<"a">>, <<"3">>})
    \cup Vary("unit", {E, None, Blank})
    \cup {[BaseForm EXCEPT !.use_now = FALSE, !.custom_datetime = v] :
            v \in {None, E, <<"x">>, DateOld, DateTimeOld}}
    \cup Vary("job_id", {<<"1">>, <<"9">>})
    \cup {[BaseForm EXCEPT !.job_id = <<"1">>, !.customer = Bob]}
    \cup Vary("truck_id", {<<"1">>, <<"x">>})
    \cup Vary("material_id", {<<"1">>})
    \cup {[BaseForm EXCEPT !.job_id = <<"1">>, !.truck_id = <<"1">>,
                           !.material_id = <<"1">>]}

NextEntry ==
    \/ \E c \in EntryConns : post(c, EntryForms, MaxEntryTickets)
    \/ \E c \in EntryConns : new_ticket(c)
    \/ \E rows \in JobPulls : refresh_jobs(rows)
    \/ admin_trucks(T7)
    \/ admin_materials(Sand)

SpecEntry == Init /\ [][NextEntry]_vars

(* ---- one connection, tickets that reference rows which then change ---- *)
AdminForms ==
    { BaseForm,
      [BaseForm EXCEPT !.job_id = <<"1">>, !.truck_id = <<"1">>,
                       !.material_id = <<"1">>, !.direction = DirOUT] }

NextAdmin ==
    \/ \E c \in EntryConns : post(c, AdminForms, MaxAdminTickets)
    \/ \E c \in EntryConns : new_ticket(c)
    \/ \E rows \in JobPulls : refresh_jobs(rows)
    \/ admin_trucks(T7)
    \/ admin_materials(Sand)
    \/ \E id \in 1..Len(trucks) : toggle_truck(id)
    \/ \E id \in 1..Len(materials) : toggle_material(id)
    \/ \E c \in EntryConns : reports(c, NoArgs)
    \/ \E c \in EntryConns : export_reports_csv(c, NoArgs)
    \/ \E c \in EntryConns : print_reports(c, NoArgs)
    \/ print_ticket

SpecAdmin == Init /\ [][NextAdmin]_vars

(* ----------------- the entry form, which lists the jobs ---------------- *)
\* lines 484-492: SELECT id, job_code, job_name, customer FROM jobs_cache
\* WHERE active = 1 ORDER BY job_code
JobOrder(a, b) == StrLess(a.job_code, b.job_code)
list_jobs(jc) ==
    SortSet({[id |-> jc[i].id, job_code |-> jc[i].job_code, job_name |-> jc[i].job_name,
              customer |-> jc[i].customer] : i \in {j \in 1..Len(jc) : jc[j].active = 1}},
            JobOrder)
\* lines 495-498
TruckOrder(a, b) == StrLess(a.truck_number, b.truck_number)
list_trucks(tr) == SortSet({tr[i] : i \in {j \in 1..Len(tr) : tr[j].active = 1}}, TruckOrder)
\* lines 501-504
MaterialNameOrder(a, b) == StrLess(a.material_name, b.material_name)
list_materials(m) ==
    SortSet({m[i] : i \in {j \in 1..Len(m) : m[j].active = 1}}, MaterialNameOrder)
\* GET /tickets/new on connection c, lines 660-665
new_ticket_form(c) ==
    /\ pc[c] = "idle"
    /\ view' = [endpoint |-> "new_ticket", jobs |-> list_jobs(jobs_cache),
                trucks |-> list_trucks(trucks), materials |-> list_materials(materials)]
    /\ pc' = [pc EXCEPT ![c] = "teardown"]
    /\ UNCHANGED <<db_vars, lock, work, files, year, form, loc, resp, source, sync>>

(* ------------------- syncs of sources that come and go ----------------- *)
AltPath == <<"a", ".", "c", "s", "v">>
J300 == <<"J", "3", "0", "0">>
GoodFile ==
    [fieldnames |-> <<"job_code", "job_name", "customer", "active">>,
     rows |-> << [job_code |-> J200, job_name |-> <<" ">> \o Elm, customer |-> Acme,
                  active |-> <<"1">>],
                 [job_code |-> J300, job_name |-> MainSt, customer |-> E,
                  active |-> <<"0">>] >>,
     readable |-> 2]
\* the job list after J200 was renamed and J300 was taken off it
ChangedFile ==
    [fieldnames |-> <<"job_code", "job_name", "customer", "active", "source_updated_at">>,
     rows |-> << [job_code |-> J200, job_name |-> Oak, customer |-> Bob,
                  active |-> <<"x">>, source_updated_at |-> DateOld] >>,
     readable |-> 1]
\* the exported master list: other column names, a status letter, a line
\* without a job number and a job listed twice
AliasFile ==
    [fieldnames |-> <<"Job #", "Job Name", "Job Status">>,
     rows |-> << ("Job #" :> <<" ">>) @@ ("Job Name" :> Oak) @@ ("Job Status" :> <<"A">>),
                 ("Job #" :> J100) @@ ("Job Name" :> MainSt) @@ ("Job Status" :> <<"a">>),
                 ("Job #" :> J100) @@ ("Job Name" :> Elm) @@ ("Job Status" :> <<"I">>) >>,
     readable |-> 3]
NoCodeFile == [GoodFile EXCEPT !.fieldnames = <<"Code", "job_name", "customer", "active">>]
NoNameFile == [GoodFile EXCEPT !.fieldnames = <<"job_code", "Name", "customer", "active">>]
EmptyFile == [fieldnames |-> <<>>, rows |-> <<>>, readable |-> 0]
\* a plain flag that is left empty, is no number, is a number other than 0 and 1
FlagFile ==
    [fieldnames |-> <<"job_code", "job_name", "active">>,
     rows |-> << [job_code |-> J100, job_name |-> MainSt, active |-> <<" ">>],
                 [job_code |-> J100, job_name |-> MainSt, active |-> <<"n", "o">>],
                 [job_code |-> J100, job_name |-> MainSt, active |-> <<"-", "2">>] >>,
     readable |-> 3]
\* no column for the flag at all
NoFlagFile ==
    [fieldnames |-> <<"Job Number", "Job Name">>,
     rows |-> << ("Job Number" :> J100) @@ ("Job Name" :> MainSt) >>,
     readable |-> 1]
\* the second line of the file cannot be read
BrokenFile == [GoodFile EXCEPT !.readable = 1]
Dsn == <<"D", "S", "N", "=", "j">>
RemoteRows ==
    << [job_code |-> J200, job_name |-> Oak, customer |-> None, active |-> None,
        source_updated_at |-> DateOld] >>
\* a result set with a row whose code is blank and a row whose code is NULL
CodelessRows ==
    << [job_code |-> <<" ">>, job_name |-> Oak, customer |-> None, active |-> None,
        source_updated_at |-> None],
       [job_code |-> None, job_name |-> Elm, customer |-> None, active |-> None,
        source_updated_at |-> None] >>
Sources ==
    { NoSource,
      [NoSource EXCEPT !.files = (DefaultPath :> GoodFile)],
      [NoSource EXCEPT !.files = (DefaultPath :> ChangedFile)],
      [NoSource EXCEPT !.files = (DrivePath :> ChangedFile)],
      [NoSource EXCEPT !.JOBS_CSV_PATH = AltPath,
                       !.files = (AltPath :> AliasFile) @@ (DefaultPath :> GoodFile)],
      [NoSource EXCEPT !.JOBS_CSV_PATH = AltPath, !.files = (DefaultPath :> GoodFile)],
      [NoSource EXCEPT !.files = (DefaultPath :> NoCodeFile)],
      [NoSource EXCEPT !.files = (DefaultPath :> NoNameFile)],
      [NoSource EXCEPT !.files = (DefaultPath :> EmptyFile)],
      [NoSource EXCEPT !.files = (DefaultPath :> BrokenFile)],
      [NoSource EXCEPT !.files = (DefaultPath :> FlagFile)],
      [NoSource EXCEPT !.files = (DrivePath :> NoFlagFile)],
      [NoSource EXCEPT !.REMOTE_SQL_ODBC_CONNECTION_STRING = Dsn, !.remote_up = TRUE,
                       !.remote_rows = RemoteRows],
      [NoSource EXCEPT !.REMOTE_SQL_ODBC_CONNECTION_STRING = Dsn] }
StartupFlags == {None, <<"O", "f", "f">>}

NextSync ==
    \/ \E s \in Sources, flag \in StartupFlags : restart(s, flag)
    \/ refresh_jobs_on_startup
    \/ refresh_jobs_begin
    \/ refresh_jobs_cache_row
    \/ refresh_jobs_commit
    \/ refresh_jobs_except
    \/ \E c \in EntryConns : new_ticket_form(c)
    \/ \E c \in EntryConns : close_db(c)

SpecSync == Init /\ [][NextSync]_vars

(* ------- syncs from a file and from remote queries, in any order ------- *)
RemoteSources ==
    { [NoSource EXCEPT !.JOBS_CSV_PATH = AltPath,
                       !.files = (AltPath :> AliasFile) @@ (DefaultPath :> GoodFile)],
      [NoSource EXCEPT !.REMOTE_SQL_ODBC_CONNECTION_STRING = Dsn, !.remote_up = TRUE,
                       !.remote_rows = RemoteRows],
      [NoSource EXCEPT !.REMOTE_SQL_ODBC_CONNECTION_STRING = Dsn, !.remote_up = TRUE,
                       !.remote_rows = CodelessRows],
      [NoSource EXCEPT !.REMOTE_SQL_ODBC_CONNECTION_STRING = Dsn] }

NextRemote ==
    \/ \E s \in RemoteSources, flag \in StartupFlags : restart(s, flag)
    \/ refresh_jobs_on_startup
    \/ refresh_jobs_begin
    \/ refresh_jobs_cache_row
    \/ refresh_jobs_commit
    \/ refresh_jobs_except

SpecRemote == Init /\ [][NextRemote]_vars

(* ---- two connections and the jobs sync, each handler running on ------- *)
\* a request that is accepted and one that is rejected inside its transaction
LiveForms == {BaseForm, [BaseForm EXCEPT !.use_now = FALSE]}
\* the default job file exists from the start
LiveSource == [NoSource EXCEPT !.files = (DefaultPath :> GoodFile)]
InitLive ==
    /\ ticket_sequence = <<>> /\ tickets = <<>> /\ jobs_cache = <<>>
    /\ trucks = <<>> /\ materials = <<>>
    /\ lock = NoOne /\ work = NoWork /\ files = <<>> /\ year = FirstYear
    /\ pc = [c \in Conns |-> "idle"]
    /\ form = [c \in Conns |-> NoForm]
    /\ loc = [c \in Conns |-> NoLoc]
    /\ resp = [c \in Conns |-> NoResp]
    /\ source = LiveSource /\ sync = NoSync /\ view = NoView

\* a handler's next statement on connection c
HandlerStep(c) == new_ticket(c) \/ begin_busy(c)
\* the next statement of the running sync
SyncStep == refresh_jobs_cache_row \/ refresh_jobs_commit \/ refresh_jobs_except

NextLive ==
    \/ \E c \in Conns : post(c, LiveForms, MaxLiveTickets)
    \/ \E c \in Conns : new_ticket(c)
    \/ \E c \in Conns : begin_busy(c)
    \/ refresh_jobs_begin
    \/ refresh_jobs_cache_row
    \/ refresh_jobs_commit
    \/ refresh_jobs_except

\* a request that has started keeps executing: each handler is a thread that
\* runs its statements one after the other, a wait for sqlite's lock ends with
\* the busy timeout (default 5 s of sqlite3.connect, line 82) and the remote
\* connection with its own (line 458); clients and operators are free to send
\* nothing more
SpecLive ==
    /\ InitLive /\ [][NextLive]_vars
    /\ \A c \in Conns : WF_vars(HandlerStep(c))
    /\ WF_vars(SyncStep)

(* ------- one connection, tickets that the three reports then list ------ *)
\* dates inside and outside the 14 days before the first day of FirstYear
DateNear == IsoDate(FirstYear - 1, 12, 31)
DateFar == IsoDate(FirstYear - 1, 12, 1)
ReportForms ==
    { BaseForm,
      [BaseForm EXCEPT !.direction = DirOUT, !.customer = Acme, !.unit = Load,
                       !.quantity = <<"3">>],
      [BaseForm EXCEPT !.customer = Acme, !.use_now = FALSE, !.custom_datetime = DateFar],
      [BaseForm EXCEPT !.direction = DirOUT, !.customer = Bob, !.job_id = <<"1">>,
                       !.material_id = <<"1">>, !.use_now = FALSE,
                       !.custom_datetime = DateNear \o <<"T", "0", "7", ":", "3", "0">>] }
ReportQueries ==
    { NoArgs,
      [NoArgs EXCEPT !.direction = DirOUT],
      [NoArgs EXCEPT !.direction = <<"o", "u", "t">>],
      [NoArgs EXCEPT !.date_from = DateNear],
      [NoArgs EXCEPT !.date_to = DateNear],
      [NoArgs EXCEPT !.date_from = <<"x">>],
      [NoArgs EXCEPT !.job_id = <<"1">>],
      [NoArgs EXCEPT !.material_id = <<"1">>] }
Offsets == {None, <<"1">>}

NextReports ==
    \/ \E c \in EntryConns : post(c, ReportForms, MaxReportTickets)
    \/ \E c \in EntryConns : new_ticket(c)
    \/ \E c \in EntryConns, a \in ReportQueries, k \in Offsets :
          reports(c, [a EXCEPT !.offset = k])
    \/ \E c \in EntryConns, a \in ReportQueries : export_reports_csv(c, a)
    \/ \E c \in EntryConns, a \in ReportQueries : print_reports(c, a)

\* the tables hold one job and one material, as a sync and an addition leave them
InitReports ==
    /\ ticket_sequence = <<>>
    /\ tickets = <<>>
    /\ jobs_cache = MergeRows(<<>>, CHOOSE rows \in JobPulls : rows[1].active = 1,
                             NowIso(FirstYear))
    /\ trucks = <<>>
    /\ materials = <<[id |-> 1, material_name |-> Sand, active |-> 1]>>
    /\ lock = NoOne
    /\ work = NoWork
    /\ files = <<>>
    /\ year = FirstYear
    /\ pc = [c \in Conns |-> "idle"]
    /\ form = [c \in Conns |-> NoForm]
    /\ loc = [c \in Conns |-> NoLoc]
    /\ resp = [c \in Conns |-> NoResp]
    /\ source = NoSource
    /\ sync = NoSync
    /\ view = NoView

SpecReports == InitReports /\ [][NextReports]_vars

(* ============================ properties ============================== *)
TicketsOfYear(tk, y) == {i \in 1..Len(tk) : tk[i].ticket_year = y}
TxPcs == {"begun", "numbered", "stamped", "rendered", "saved", "inserted"}
\* connection c has a write transaction open
InTx(c) == pc[c] \in TxPcs \/ (pc[c] = "teardown" /\ lock = c)
ValidationMessages ==
    {"Direction must be IN or OUT.",
     "Job, truck, material, quantity, and unit are required.",
     "Quantity must be numeric.",
     "Please select a valid date and time.",
     "Invalid date format."}
ExceptionMessages ==
    {"exception: next_ticket_number", "exception: to_pdf_bytes", "exception: save_pdf",
     "exception: insert", "exception: commit"}

\* C1: in every committed state, the sequence values of the stored tickets of
\* each year are exactly 1..N, N the number of stored tickets of that year.
C1_GaplessPerYear ==
    \A y \in Years :
        {tickets[i].ticket_sequence : i \in TicketsOfYear(tickets, y)}
            = 1..Cardinality(TicketsOfYear(tickets, y))
\* two tickets of one year are stored and the request of another connection has
\* just failed at its commit
C1_Witness ==
    /\ \E y \in Years : Cardinality(TicketsOfYear(tickets, y)) >= 2
    /\ \E c \in Conns : pc[c] = "teardown" /\ resp[c] = "exception: commit"

\* C2: at most one connection is between BEGIN IMMEDIATE and its commit or
\* rollback, it is the holder of the write lock, and the counter value it read
\* is still the committed one: no other allocation came in between.
C2_SerializedAllocation ==
    /\ \A c, d \in Conns : InTx(c) /\ InTx(d) => c = d
    /\ \A c \in Conns : pc[c] \in TxPcs => lock = c
    /\ \A c \in Conns :
          pc[c] \in TxPcs \ {"begun"} =>
              loc[c].seq - 1 = (IF loc[c].ticket_year \in DOMAIN ticket_sequence
                                THEN ticket_sequence[loc[c].ticket_year] ELSE 0)
\* one request has read and incremented the counter while another stands
\* before its BEGIN IMMEDIATE
C2_Witness ==
    \E c, d \in Conns :
        /\ c # d
        /\ pc[c] = "numbered" /\ loc[c].seq = 2
        /\ pc[d] = "resolved"

\* C3: a request that fails after the increment leaves the committed counter
\* and tickets as they were and holds no lock; in every state the committed
\* counter of a year is the number of stored tickets of that year.
C3_RollbackAsOneUnit ==
    [][ /\ \A c \in Conns :
              (pc[c] \in TxPcs /\ pc'[c] = "teardown" /\ resp'[c] \in ExceptionMessages)
                  => /\ ticket_sequence' = ticket_sequence
                     /\ tickets' = tickets
                     /\ lock' = NoOne
        /\ \A y \in DOMAIN ticket_sequence' :
              ticket_sequence'[y] = Cardinality(TicketsOfYear(tickets', y))
      ]_vars
\* an insert has failed after the file was written: the file is an orphan
C3_Witness ==
    /\ \E c \in Conns : pc[c] = "teardown" /\ resp[c] = "exception: insert"
    /\ \E path \in DOMAIN files : \A i \in 1..Len(tickets) : tickets[i].pdf_path # path
    /\ Len(tickets) >= 1

\* C4: stored ticket numbers are pairwise distinct and read DT-<year>-<six
\* digits>, the year and digits being the ticket's own year and sequence.
C4_NumberFormat ==
    /\ \A i, j \in 1..Len(tickets) :
          tickets[i].ticket_number = tickets[j].ticket_number => i = j
    /\ \A i \in 1..Len(tickets) :
          LET n == tickets[i].ticket_number IN
          /\ Len(n) = 14
          /\ SubSeq(n, 1, 3) = <<"D", "T", "-">>
          /\ AllDigits(SubSeq(n, 4, 7))
          /\ DecVal(SubSeq(n, 4, 7)) = tickets[i].ticket_year
          /\ n[8] = "-"
          /\ AllDigits(SubSeq(n, 9, 14))
          /\ DecVal(SubSeq(n, 9, 14)) = tickets[i].ticket_sequence
\* tickets of two years carry the same sequence value
C4_Witness ==
    \E i, j \in 1..Len(tickets) :
        /\ tickets[i].ticket_year # tickets[j].ticket_year
        /\ tickets[i].ticket_sequence = tickets[j].ticket_sequence

\* C6: every ticket row, stored or inserted and not yet committed, carries the
\* document rendered from it and the path of a file that was written; a
\* request whose rendering fails adds no row.
TicketHasDocument(t, fs) ==
    /\ t.pdf_blob # None
    /\ t.pdf_path # None
    /\ Len(t.pdf_blob) = 2
    /\ \A k \in 1..2 : t.pdf_blob[k].ticket.ticket_number = t.ticket_number
    /\ t.pdf_path \in DOMAIN fs
C6_TicketHasDocument ==
    [][ /\ \A i \in 1..Len(tickets') : TicketHasDocument(tickets'[i], files')
        /\ \A i \in 1..Len(work'.tickets) : TicketHasDocument(work'.tickets[i], files')
        /\ \A c \in Conns :
              (pc[c] = "stamped" /\ pc'[c] = "teardown")
                  => tickets' = tickets /\ work'.tickets = <<>>
      ]_vars
\* a ticket is stored and a later request has failed in rendering
C6_Witness ==
    /\ Len(tickets) >= 1
    /\ \E c \in Conns : pc[c] = "teardown" /\ resp[c] = "exception: to_pdf_bytes"

\* C7: a request that ends in a validation error has opened no write
\* transaction and written no counter.
C7_ValidationBeforeMutation ==
    \A c \in Conns :
        (pc[c] = "teardown" /\ resp[c] \in ValidationMessages)
            => lock # c /\ work = NoWork

\* C5: no step changes a stored ticket: every row stored before a step is
\* stored, field for field, after it.
C5_TicketsImmutable ==
    [][ \A i \in 1..Len(tickets) :
            i <= Len(tickets') /\ tickets'[i] = tickets[i] ]_vars
\* a ticket references job 1, truck 1 and material 1; since then the job was
\* renamed and retired, the truck and the material were deactivated and
\* another ticket was created
C5_Witness ==
    /\ Len(tickets) >= 2
    /\ tickets[1].job_id = 1 /\ tickets[1].truck_id = 1 /\ tickets[1].material_id = 1
    /\ jobs_cache[1].job_name # tickets[1].job_name_snapshot
    /\ jobs_cache[1].active = 0
    /\ trucks[1].active = 0
    /\ materials[1].active = 0

AllBlank(s) == \A i \in 1..Len(s) : s[i] = " "
AbsentOrEmpty(v) == v = None \/ v = E
\* absent, empty or made of blanks only
Missing(v) == v = None \/ AllBlank(v)
\* the handler of c runs lines 517-581 in this step
Resolves(c) == pc[c] = "posted" /\ pc'[c] # "posted"
\* this step rejects the request of c and writes nothing
Rejects(c, messages) ==
    /\ pc'[c] = "teardown"
    /\ resp'[c] \in messages
    /\ UNCHANGED <<db_vars, lock, work, files>>

\* C8 as stated: a request in which one of the five fields is absent or empty
\* is rejected with a validation error and creates no ticket.
C8_AbsentOrEmptyRejected ==
    [][ \A c \in Conns :
            (Resolves(c) /\ \E k \in {"job_entry", "truck_entry", "material_entry",
                                      "quantity", "unit"} : AbsentOrEmpty(form[c][k]))
                => Rejects(c, ValidationMessages) ]_vars

\* C8 as amended: a request whose job, truck or material text is absent, empty
\* or blank, or whose quantity or unit is given but blank, is rejected with a
\* validation error and writes nothing; an absent or empty quantity reads as 1
\* and an absent or empty unit as Load.
C8_RequiredFields ==
    [][ \A c \in Conns :
            Resolves(c) =>
                LET f == form[c] IN
                /\ (\/ Missing(f.job_entry)
                    \/ Missing(f.truck_entry)
                    \/ Missing(f.material_entry)
                    \/ (~AbsentOrEmpty(f.quantity) /\ AllBlank(f.quantity))
                    \/ (~AbsentOrEmpty(f.unit) /\ AllBlank(f.unit)))
                       => Rejects(c, {"Direction must be IN or OUT.",
                             "Job, truck, material, quantity, and unit are required."})
                /\ (pc'[c] = "resolved" /\ AbsentOrEmpty(f.quantity))
                       => loc'[c].quantity_num = 100
                /\ (pc'[c] = "resolved" /\ AbsentOrEmpty(f.unit))
                       => loc'[c].unit = Load
                /\ f \in {[BaseForm EXCEPT !.quantity = v] : v \in {None, E}}
                            \cup {[BaseForm EXCEPT !.unit = v] : v \in {None, E}}
                       => pc'[c] = "resolved" ]_vars
\* a request has been rejected for a missing required field
C8_Witness ==
    \E c \in Conns :
        /\ pc[c] = "teardown"
        /\ resp[c] = "Job, truck, material, quantity, and unit are required."

LowerChar(ch) ==
    CASE ch = "I" -> "i" [] ch = "N" -> "n" [] ch = "O" -> "o"
      [] ch = "U" -> "u" [] ch = "T" -> "t" [] OTHER -> ch
\* s is the word w in any letter case, with blanks around it
IsWord(s, w) ==
    /\ s # None
    /\ \E a \in 0..Len(s) :
          /\ Len(s) >= a + Len(w)
          /\ \A i \in 1..Len(s) :
                IF i <= a \/ i > a + Len(w) THEN s[i] = " "
                ELSE s[i] \in {w[i - a], LowerChar(w[i - a])}

\* C9 as stated: a request whose direction is not exactly IN or OUT is
\* rejected with a validation error and creates no ticket.
C9_NotExactlyRejected ==
    [][ \A c \in Conns :
            (Resolves(c) /\ form[c].direction \notin {DirIN, DirOUT})
                => Rejects(c, {"Direction must be IN or OUT."}) ]_vars

\* C9 as amended: a request whose direction, with the surrounding blanks
\* removed and in upper case, is not IN or OUT is rejected with the direction
\* error and writes nothing; an accepted request carries IN or OUT, the word
\* it was given, and every stored ticket has direction IN or OUT.
C9_DirectionNormalised ==
    [][ /\ \A c \in Conns :
              Resolves(c) =>
                  LET f == form[c] IN
                  /\ ~(IsWord(f.direction, DirIN) \/ IsWord(f.direction, DirOUT))
                         => Rejects(c, {"Direction must be IN or OUT."})
                  /\ pc'[c] = "resolved"
                         => /\ loc'[c].direction \in {DirIN, DirOUT}
                            /\ IsWord(f.direction, loc'[c].direction)
        /\ \A i \in 1..Len(tickets') : tickets'[i].direction \in {DirIN, DirOUT}
      ]_vars
\* a request has been rejected for its direction
C9_Witness ==
    \E c \in Conns : pc[c] = "teardown" /\ resp[c] = "Direction must be IN or OUT."

\* C10: an identifier that matches a row makes the snapshot take the row's
\* fields and id, the row's customer only when the request's customer is
\* empty; the inserted and committed row carries the resolved values.
C10_ResolveByIdentifier ==
    [][ \A c \in Conns :
          /\ (pc[c] = "posted" /\ pc'[c] = "resolved") =>
                LET f == form[c]
                    l == loc'[c]
                IN
                /\ \A i \in 1..Len(jobs_cache) :
                      f.job_id = Str(i) =>
                          /\ l.job_id_value = jobs_cache[i].id
                          /\ l.job_code_snapshot = jobs_cache[i].job_code
                          /\ l.job_name_snapshot = jobs_cache[i].job_name
                          /\ l.customer = IF f.customer = E THEN jobs_cache[i].customer
                                          ELSE f.customer
                /\ \A i \in 1..Len(trucks) :
                      f.truck_id = Str(i) =>
                          /\ l.truck_id_value = trucks[i].id
                          /\ l.truck_number_snapshot = trucks[i].truck_number
                /\ \A i \in 1..Len(materials) :
                      f.material_id = Str(i) =>
                          /\ l.material_id_value = materials[i].id
                          /\ l.material_name_snapshot = materials[i].material_name
          /\ (pc[c] = "saved" /\ pc'[c] = "inserted") =>
                LET t == work'.tickets[Len(work'.tickets)]
                    l == loc[c]
                IN
                /\ t.job_id = l.job_id_value
                /\ t.job_code_snapshot = l.job_code_snapshot
                /\ t.job_name_snapshot = l.job_name_snapshot
                /\ t.customer_snapshot = l.customer
                /\ t.truck_id = l.truck_id_value
                /\ t.truck_number_snapshot = l.truck_number_snapshot
                /\ t.material_id = l.material_id_value
                /\ t.material_name_snapshot = l.material_name_snapshot
          /\ (pc[c] = "inserted" /\ pc'[c] = "committed") => tickets' = work.tickets
      ]_vars
\* a stored ticket took job, truck and material from the rows its identifiers
\* name, not from the free text, and the customer from the job row
C10_Witness ==
    \E i \in 1..Len(tickets) :
        /\ tickets[i].job_id = 1 /\ tickets[i].truck_id = 1 /\ tickets[i].material_id = 1
        /\ tickets[i].job_code_snapshot = J200 /\ tickets[i].job_name_snapshot = Elm
        /\ tickets[i].customer_snapshot = Acme
        /\ tickets[i].truck_number_snapshot = T7
        /\ tickets[i].material_name_snapshot = Sand

(* ------------------------------- C11 ---------------------------------- *)
Sep == <<" ", "-", " ">>
IsSepAt(s, p) == p \in 1..(Len(s) - 2) /\ SubSeq(s, p, p + 2) = Sep
HasSep(s) == \E p \in 1..Len(s) : IsSepAt(s, p)
\* the identifier text names no row of the table
NamesNoRow(id_text, table) == ~\E i \in 1..Len(table) : id_text = Str(i)

\* C11: when no identifier is supplied for job, truck or material, or the
\* identifier matches no row, the snapshot is the (trimmed) free text and the
\* weak reference is null (0); job text containing " - " is split at its first
\* occurrence into code and name, each trimmed, otherwise the whole text is both
\* code and name; "J100 - Main St" gives code J100 and name Main St.
C11_FreeTextSnapshot ==
    [][ \A c \in Conns :
          (pc[c] = "posted" /\ pc'[c] = "resolved") =>
              LET v == Fields(form[c])
                  l == loc'[c]
                  s == v.job_entry
              IN
              /\ NamesNoRow(v.job_id, jobs_cache) =>
                    /\ l.job_id_value = 0
                    /\ HasSep(s) =>
                          \E p \in 1..Len(s) :
                              /\ IsSepAt(s, p)
                              /\ \A q \in 1..(p - 1) : ~IsSepAt(s, q)
                              /\ l.job_code_snapshot = strip(SubSeq(s, 1, p - 1))
                              /\ l.job_name_snapshot = strip(SubSeq(s, p + 3, Len(s)))
                    /\ ~HasSep(s) =>
                          l.job_code_snapshot = s /\ l.job_name_snapshot = s
                    /\ s = JobText =>
                          l.job_code_snapshot = J100 /\ l.job_name_snapshot = MainSt
              /\ NamesNoRow(v.truck_id, trucks) =>
                    l.truck_id_value = 0 /\ l.truck_number_snapshot = v.truck_entry
              /\ NamesNoRow(v.material_id, materials) =>
                    l.material_id_value = 0 /\ l.material_name_snapshot = v.material_entry
      ]_vars
\* a ticket is stored whose job text held two separators: it was split at the
\* first one, and job, truck and material references are null
C11_Witness ==
    \E i \in 1..Len(tickets) :
        /\ tickets[i].job_id = 0 /\ tickets[i].truck_id = 0 /\ tickets[i].material_id = 0
        /\ tickets[i].job_code_snapshot = <<"A">>
        /\ tickets[i].job_name_snapshot = <<"B", " ", "-", " ", "C">>
        /\ tickets[i].truck_number_snapshot = T12
        /\ tickets[i].material_name_snapshot = Gravel

(* ------------------------------- C12 ---------------------------------- *)
\* the stored tickets a report with filters p is about
Matching(p) == {i \in 1..Len(tickets) : Where(tickets[i], p)}
RECURSIVE QuantitySum(_)
QuantitySum(I) ==
    IF I = {} THEN 0
    ELSE LET i == CHOOSE j \in I : TRUE IN tickets[i].quantity + QuantitySum(I \ {i})
Lines(rows) == {rows[i] : i \in 1..Len(rows)}

\* C12: the per-unit totals of a report are, for each unit among the tickets
\* matching its filter, the sum of quantity over all those tickets, and the
\* per-(material, unit) totals likewise: both cover the whole filtered set,
\* whatever the offset and whichever tickets the returned page holds.
C12_TotalsOverFilteredSet ==
    view.endpoint = "reports" =>
        LET M == Matching(view.filters) IN
        /\ Lines(view.totals_by_unit) =
              {[unit |-> tickets[i].unit,
                total_quantity |-> QuantitySum({j \in M : tickets[j].unit = tickets[i].unit})] :
                  i \in M}
        /\ Lines(view.totals_by_material) =
              {[material_name_snapshot |-> tickets[i].material_name_snapshot,
                unit |-> tickets[i].unit,
                total_quantity |->
                    QuantitySum({j \in M :
                        /\ tickets[j].material_name_snapshot = tickets[i].material_name_snapshot
                        /\ tickets[j].unit = tickets[i].unit})] :
                  i \in M}
        /\ Len(view.totals_by_unit) = Cardinality(Lines(view.totals_by_unit))
        /\ Len(view.totals_by_material) = Cardinality(Lines(view.totals_by_material))
\* a report asked for with offset 1 returns a page without one of the two
\* matching tickets, and a total that counts both
C12_Witness ==
    /\ view.endpoint = "reports"
    /\ view.offset = 1
    /\ Cardinality(Matching(view.filters)) = 2
    /\ Len(view.tickets) = 1
    /\ \E g \in Lines(view.totals_by_unit) :
          /\ g.total_quantity = QuantitySum(Matching(view.filters))
          /\ g.total_quantity # view.tickets[1].quantity

(* ------------------------------- C13 ---------------------------------- *)
\* the request carries neither date
NoDates(a) == strip(Arg(a.date_from)) = E /\ strip(Arg(a.date_to)) = E
\* the ticket numbers a body lists
ListedNumbers(body) ==
    IF body.endpoint = "export_reports_csv"
    THEN {body.tickets[i][1] : i \in 1..Len(body.tickets)}
    ELSE {body.tickets[i].ticket_number : i \in 1..Len(body.tickets)}
\* the stored tickets created from 14 days before today through today
InWindow(y) ==
    {i \in 1..Len(tickets) :
        /\ StrLessEq(DateMinusDays(Today(y), WindowDays), SubSeq(tickets[i].created_at, 1, 10))
        /\ StrLessEq(SubSeq(tickets[i].created_at, 1, 10), Today(y))}
\* C13 as stated: when a request supplies neither date-from nor date-to, the
\* interactive report, the print variant and the CSV export each list only
\* tickets created from 14 days before today through today.
C13_DefaultWindowEverywhere ==
    (view.endpoint # "none" /\ NoDates(view.args)) =>
        \A i \in 1..Len(tickets) :
            tickets[i].ticket_number \in ListedNumbers(view) => i \in InWindow(year)

(* ------------------------------- C14 ---------------------------------- *)
\* C14 as stated: the CSV export lists the tickets and gives the per-unit and
\* per-(material, unit) totals that the interactive report gives for the same
\* filter parameters over the same stored tickets.
C14_ExportEqualsReport ==
    view.endpoint = "export_reports_csv" =>
        LET report == ReportsBody(view.args, tickets, year) IN
        /\ ListedNumbers(view) = ListedNumbers(report)
        /\ view.totals_by_unit = Project(report.totals_by_unit, CsvUnitRow)
        /\ view.totals_by_material = Project(report.totals_by_material, CsvMaterialRow)

(* ------------------------------- C15 ---------------------------------- *)
\* the rank the claim gives a direction: IN first, OUT second, anything else last
ClaimedRank(d) == CASE d = DirIN -> 1 [] d = DirOUT -> 2 [] OTHER -> 3

\* C15: the interactive report and the print variant list the matching tickets
\* by customer ascending, then IN before OUT and any other direction last, then
\* by ticket id descending; the print variant lists every matching ticket.
C15_ReportOrdering ==
    view.endpoint \in {"reports", "print_reports"} =>
        /\ \A i, j \in 1..Len(view.tickets) :
              i < j =>
                LET t == view.tickets[i]
                    u == view.tickets[j]
                IN \/ StrLess(t.customer_snapshot, u.customer_snapshot)
                   \/ /\ t.customer_snapshot = u.customer_snapshot
                      /\ ClaimedRank(t.direction) < ClaimedRank(u.direction)
                   \/ /\ t.customer_snapshot = u.customer_snapshot
                      /\ ClaimedRank(t.direction) = ClaimedRank(u.direction)
                      /\ t.id > u.id
        /\ \A i \in 1..Len(view.tickets) :
              \E k \in Matching(view.filters) : view.tickets[i] = ReportRow(tickets[k])
        /\ view.endpoint = "print_reports" =>
              Len(view.tickets) = Cardinality(Matching(view.filters))
        /\ StrLess(E, Acme) /\ StrLess(Acme, Bob)
\* the print variant lists three tickets oldest first: the customer decided
\* between the first two, and IN before OUT between the last two
C15_Witness ==
    /\ view.endpoint = "print_reports"
    /\ Len(view.tickets) = 3
    /\ view.tickets[1].id = 1 /\ view.tickets[2].id = 2 /\ view.tickets[3].id = 3
    /\ view.tickets[1].customer_snapshot # view.tickets[2].customer_snapshot
    /\ view.tickets[2].customer_snapshot = view.tickets[3].customer_snapshot
    /\ view.tickets[2].direction = DirIN /\ view.tickets[3].direction = DirOUT

(* ------------------------------ C16 ----------------------------------- *)
\* the step on which a sync commits
SyncCommits == sync.pc = "rows" /\ sync'.pc = "idle" /\ sync'.result = "complete"
\* what a cache entry holds apart from its local refresh time
Entry(j) == [job_code |-> j.job_code, job_name |-> j.job_name, customer |-> j.customer,
             active |-> j.active, source_updated_at |-> j.source_updated_at]
Entries(jc) == {Entry(jc[i]) : i \in 1..Len(jc)}
OnePerCode(jc) == \A i, j \in 1..Len(jc) : jc[i].job_code = jc[j].job_code => i = j
\* C16: a sync that commits against the source the last committed sync ran
\* against leaves the cache with the same set of entries, each with the same
\* code, name, customer, active flag and source update time, and with exactly
\* one entry per code; only the local refresh time may differ.
C16_SyncIdempotent ==
    [][(SyncCommits /\ sync.last = source)
          => /\ Entries(jobs_cache') = Entries(jobs_cache)
             /\ Len(jobs_cache') = Len(jobs_cache)
             /\ OnePerCode(jobs_cache')]_vars
\* a second sync of the exported list, which names one job twice, has committed
C16_Witness ==
    /\ sync.result = "complete" /\ sync.again
    /\ sync.chosen = AltPath /\ sync.synced = 2
    /\ Len(jobs_cache) >= 1

(* ------------------------------ C17 ----------------------------------- *)
\* the rows the committing sync has pulled, as values to store, in source order
Pull ==
    LET parsed == [k \in 1..Len(SyncRows) |->
                     IF sync.chosen = Remote THEN ParseRemoteRow(SyncRows[k])
                     ELSE ParseCsvRow(SyncRows[k], sync.cols)]
    IN SelectSeq(parsed, LAMBDA r : sync.chosen = Remote \/ r.job_code # E)
PulledCodes == {Pull[k].job_code : k \in 1..Len(Pull)}
\* the source's values for a code: those of the last row that names it
LastPulled(code) ==
    LET K == {k \in 1..Len(Pull) : Pull[k].job_code = code}
    IN Pull[CHOOSE k \in K : \A m \in K : m <= k]
\* C17: no step removes a cache entry or changes the code of one, and the cache
\* never holds two entries with one code; when a sync commits, an entry whose
\* code the pull does not name keeps all its fields, and an entry whose code
\* the pull names holds the source's name, customer, active flag and source
\* update time.
C17_SyncNeverRemoves ==
    [][/\ Len(jobs_cache') >= Len(jobs_cache)
       /\ \A i \in 1..Len(jobs_cache) :
             /\ jobs_cache'[i].job_code = jobs_cache[i].job_code
             /\ jobs_cache'[i].id = jobs_cache[i].id
       /\ OnePerCode(jobs_cache')
       /\ SyncCommits =>
             \A i \in 1..Len(jobs_cache') :
                IF jobs_cache'[i].job_code \in PulledCodes
                THEN Entry(jobs_cache'[i]) = LastPulled(jobs_cache'[i].job_code)
                ELSE i <= Len(jobs_cache) /\ jobs_cache'[i] = jobs_cache[i]]_vars
\* a sync of the list that renamed J200 and no longer names J300 has committed:
\* J300 is still cached and J200 holds the new name and customer
C17_Witness ==
    /\ sync.result = "complete" /\ sync.chosen = DefaultPath
    /\ DefaultPath \in DOMAIN source.files /\ source.files[DefaultPath] = ChangedFile
    /\ \E i \in 1..Len(jobs_cache) :
          jobs_cache[i].job_code = J300 /\ jobs_cache[i].job_name = MainSt
    /\ \E i \in 1..Len(jobs_cache) :
          /\ jobs_cache[i].job_code = J200 /\ jobs_cache[i].job_name = Oak
          /\ jobs_cache[i].customer = Bob /\ jobs_cache[i].source_updated_at = DateOld

(* ------------------------------ C18 ----------------------------------- *)
CodeAliases == {"job_code", "Job #", "Job#", "Job Number"}
NameAliases == {"job_name", "Job Name"}
Names(header) == {header[k] : k \in 1..Len(header)}
LacksAlias(header) ==
    Names(header) \cap CodeAliases = {} \/ Names(header) \cap NameAliases = {}
\* the step on which a sync, on demand or at startup, picks and opens its source
SyncOpens ==
    \/ sync.pc = "idle" /\ sync'.pc # "boot" /\ sync' # sync
    \/ sync.pc = "boot" /\ sync'.pc # "boot" /\ sync'.result # "disabled"
\* C18: a sync that opens a file whose header names the job code column or the
\* job name column under none of the accepted aliases ends on that step with
\* the missing-columns error, having read no data row and written no cache
\* entry; a sync never stands in the rows of such a file.
C18_MissingAliasFailsFirst ==
    [][/\ (SyncOpens /\ resolve_jobs_csv_path(source) # None)
             => LET header == source.files[resolve_jobs_csv_path(source)].fieldnames IN
                (header # <<>> /\ LacksAlias(header))
                   => /\ sync'.pc = "idle"
                      /\ sync'.result = "failed: CSV missing required columns"
                      /\ sync'.next = 0 /\ sync'.synced = 0 /\ ~sync'.wrote
                      /\ jobs_cache' = jobs_cache /\ lock' = lock
       /\ (sync'.pc = "rows" /\ sync'.chosen # Remote)
             => ~LacksAlias(source'.files[sync'.chosen].fieldnames)]_vars
\* a sync of a file with a code column and no name column has failed, with
\* jobs from an earlier sync in the cache
C18_Witness ==
    /\ sync.result = "failed: CSV missing required columns"
    /\ sync.chosen = DefaultPath
    /\ DefaultPath \in DOMAIN source.files /\ source.files[DefaultPath] = NoNameFile
    /\ Len(jobs_cache) >= 1

(* ------------------------------ C19 ----------------------------------- *)
\* the source the stated order picks: the configured file when one is
\* configured and exists, else a default local file that exists, else the
\* configured remote query, else none
ClaimedSource(src) ==
    LET configured == GetEnv(src.JOBS_CSV_PATH) IN
    IF configured # E /\ configured \in DOMAIN src.files THEN configured
    ELSE IF DefaultPath \in DOMAIN src.files THEN DefaultPath
    ELSE IF DrivePath \in DOMAIN src.files THEN DrivePath
    ELSE IF src.REMOTE_SQL_ODBC_CONNECTION_STRING \notin {None, E} THEN Remote
    ELSE None
\* C19: a sync that opens its source takes the configured file when it is set
\* and exists, else the default local file when it exists, else the configured
\* remote query; it fails with the no-source error exactly when none of the
\* three is available, and then writes nothing.
C19_SourceOrder ==
    [][SyncOpens
          => /\ sync'.chosen = ClaimedSource(source)
             /\ (sync'.result = "failed: No jobs source found.")
                   <=> (ClaimedSource(source) = None)
             /\ (ClaimedSource(source) = None)
                   => (jobs_cache' = jobs_cache /\ ~sync'.wrote)]_vars

(* ------------------------------ C20 ----------------------------------- *)
FailedResults ==
    {"failed: No jobs source found.", "failed: CSV is missing a header row.",
     "failed: CSV missing required columns", "failed: remote connection",
     "failed: exception"}
\* the step on which a sync, on demand or at startup, ends in failure
SyncFails == sync' # sync /\ sync'.pc = "idle" /\ sync'.result \in FailedResults
\* C20: a step on which a sync fails, for whichever reason and however the sync
\* was started, leaves the committed jobs cache as it was; the committed cache
\* changes on no step but the commit of a sync, and the jobs a request lists
\* are those of the committed cache, never the upserts of a running or failed
\* sync.
C20_FailedSyncLeavesCache ==
    [][/\ SyncFails => jobs_cache' = jobs_cache
       /\ (jobs_cache' # jobs_cache) => SyncCommits
       /\ (view' # view /\ view'.endpoint = "new_ticket")
             => view'.jobs = list_jobs(jobs_cache)]_vars
\* a startup sync of the file whose second line cannot be read has failed
\* after upserting J200 under its old name; the cache, and the entry form a
\* request has listed, hold J200 under the committed name
C20_Witness ==
    /\ sync.result = "failed: exception" /\ sync.trigger = "startup"
    /\ sync.synced = 1 /\ sync.chosen = DefaultPath
    /\ DefaultPath \in DOMAIN source.files /\ source.files[DefaultPath] = BrokenFile
    /\ \E i \in 1..Len(jobs_cache) :
          jobs_cache[i].job_code = J200 /\ jobs_cache[i].job_name = Oak
    /\ view.endpoint = "new_ticket"
    /\ \E k \in 1..Len(view.jobs) :
          view.jobs[k].job_code = J200 /\ view.jobs[k].job_name = Oak

(* ------------------------------ C21 ----------------------------------- *)
PrintFailed == "Ticket saved, but print failed"
\* C21: the print is attempted only by a request whose ticket is committed and
\* whose transaction is over; the step that reports the print failure, and the
\* end of that request, leave the committed tickets and counters unchanged.
C21_PrintAfterCommit ==
    [][\A c \in Conns :
          /\ (pc[c] = "committed" /\ pc'[c] = "teardown")
                => /\ lock # c
                   /\ \E i \in 1..Len(tickets) :
                         /\ tickets[i].ticket_number = loc[c].ticket_number
                         /\ ticket_sequence[tickets[i].ticket_year]
                               >= tickets[i].ticket_sequence
                   /\ tickets' = tickets /\ ticket_sequence' = ticket_sequence
                   /\ resp'[c] \in {"Ticket created.", PrintFailed}
          /\ (resp'[c] = PrintFailed /\ resp[c] # PrintFailed)
                => (pc[c] = "committed" /\ loc[c].auto_print)
          /\ (resp[c] = PrintFailed /\ pc'[c] # pc[c])
                => (tickets' = tickets /\ ticket_sequence' = ticket_sequence)]_vars
\* a request has reported a failed print and its ticket is stored
C21_Witness ==
    \E c \in Conns :
       /\ resp[c] = PrintFailed /\ pc[c] = "teardown"
       /\ Len(tickets) >= 1

(* ------------------------------ C22 ----------------------------------- *)
\* C22: every ticket-creation request that has started, be it waiting for the
\* write lock or holding it, ends with the lock given up, whatever the other
\* connection and the sync do; every sync that has started ends with the lock
\* given up.
C22_NothingBlocksForever ==
    /\ \A c \in Conns : (pc[c] # "idle" \/ lock = c) ~> (pc[c] = "idle" /\ lock # c)
    /\ (sync.pc # "idle" \/ lock = SyncConn) ~> (sync.pc = "idle" /\ lock # SyncConn)
\* a request that found the lock held by the sync has ended with the
\* database-locked error while the sync still holds it
C22_Witness ==
    \E c \in Conns :
       /\ resp[c] = "exception: database is locked" /\ pc[c] = "teardown"
       /\ lock = SyncConn /\ sync.pc = "rows"

(* ------------------------------ C23 ----------------------------------- *)
\* the step on which a file-based sync merges a row
MergesFileRow ==
    /\ sync.pc = "rows" /\ sync'.pc = "rows" /\ sync.chosen # Remote
    /\ sync'.next = sync.next + 1 /\ sync'.synced = sync.synced + 1
\* the row being merged as the file holds it, and the file's header
FileRow == source.files[sync.chosen].rows[sync.next + 1]
FileHeader == source.files[sync.chosen].fieldnames
\* the flag under the plain-flag alias
PlainFlag(raw) == IF raw = E THEN 1 ELSE IF IsInt(raw) THEN IntValue(raw) ELSE 1
\* the flag the stated convention gives, the marker compared by IsMarker
FlagByAlias(IsMarker(_)) ==
    IF "active" \in Names(FileHeader) THEN PlainFlag(strip(FileRow["active"]))
    ELSE IF "Job Status" \in Names(FileHeader)
    THEN (IF IsMarker(FileRow["Job Status"]) THEN 1 ELSE 0)
    ELSE 1
ExactlyA(raw) == strip(raw) = <<"A">>
AnyCaseA(raw) == upper(strip(raw)) = <<"A">>
\* C23 as stated: under the alias Job Status the value A gives active and every
\* other value inactive; under the alias active the value is read as an
\* integer, and an empty or unparseable value, or no flag column, gives active.
C23_ActiveByAlias ==
    [][MergesFileRow
          => \E j \in Entries(sync'.jobs) :
                /\ j.job_code = NextRow.job_code
                /\ j.active = FlagByAlias(ExactlyA)]_vars
\* C23 as amended: as stated, with the status value compared to A after
\* trimming and without regard to case.
C23_ActiveByAliasAnyCase ==
    [][MergesFileRow
          => \E j \in Entries(sync'.jobs) :
                /\ j.job_code = NextRow.job_code
                /\ j.active = FlagByAlias(AnyCaseA)]_vars
\* a sync of the exported list has merged a job whose status is a lower-case a
\* as active, after a sync of the plain flags -2, "no" and blank had left the
\* job with the flag -2
C23_Witness ==
    /\ sync.pc = "rows" /\ sync.chosen = AltPath /\ sync.next = 2
    /\ \E i \in 1..Len(sync.jobs) :
          sync.jobs[i].job_code = J100 /\ sync.jobs[i].active = 1
    /\ \E i \in 1..Len(jobs_cache) :
          jobs_cache[i].job_code = J100 /\ jobs_cache[i].active = 0 - 2

(* ------------------------------ C24 ----------------------------------- *)
\* the step on which a ticket is committed, and that ticket
TicketCommits == Len(tickets') = Len(tickets) + 1
Newest == tickets'[Len(tickets')]
\* C24: a ticket that is committed has a strictly larger sequence value than
\* every ticket of its year committed before it and a larger id than every
\* ticket committed before it; no step takes a year's committed counter away
\* or lowers it.
C24_SequenceFollowsCommitOrder ==
    [][/\ TicketCommits
          => /\ SubSeq(tickets', 1, Len(tickets)) = tickets
             /\ \A i \in 1..Len(tickets) :
                   /\ tickets[i].id < Newest.id
                   /\ tickets[i].ticket_year = Newest.ticket_year
                         => tickets[i].ticket_sequence < Newest.ticket_sequence
       /\ \A y \in DOMAIN ticket_sequence :
             y \in DOMAIN ticket_sequence' /\ ticket_sequence'[y] >= ticket_sequence[y]]_vars
\* two tickets of one year are stored, the later with the larger sequence
\* value, after a request of that year was rolled back
C24_Witness ==
    /\ \E i, j \in 1..Len(tickets) :
          /\ i < j /\ tickets[i].ticket_year = tickets[j].ticket_year
          /\ tickets[i].ticket_sequence = 1 /\ tickets[j].ticket_sequence = 2
    /\ \E c \in Conns : pc[c] = "teardown" /\ resp[c] = "exception: insert"

(* ------------------------------ C25 ----------------------------------- *)
\* the step on which connection c allocates a number
Allocates(c) == pc[c] = "begun" /\ pc'[c] = "numbered"
\* C25: an allocation for a year without a counter row issues sequence 1 and
\* leaves the row at 1; an allocation, and the commit after it, change the
\* counter row of no other year; the first ticket stored for a year has
\* sequence 1 whatever the counters of the other years are.
C25_YearsAreIndependent ==
    [][/\ \A c \in Conns :
             Allocates(c)
                => /\ (year \notin DOMAIN work.ticket_sequence)
                         => (loc'[c].seq = 1 /\ work'.ticket_sequence[year] = 1)
                   /\ DOMAIN work'.ticket_sequence
                         = DOMAIN work.ticket_sequence \cup {year}
                   /\ \A y \in DOMAIN work.ticket_sequence \ {year} :
                         work'.ticket_sequence[y] = work.ticket_sequence[y]
       /\ TicketCommits
             => \A y \in DOMAIN ticket_sequence \ {Newest.ticket_year} :
                   ticket_sequence'[y] = ticket_sequence[y]
       /\ \A i \in 1..Len(tickets') :
             (\A j \in 1..(i - 1) : tickets'[j].ticket_year # tickets'[i].ticket_year)
                => tickets'[i].ticket_sequence = 1]_vars
\* the first number of the new year has been allocated as 1 while the counter
\* of the year before stands at 2
C25_Witness ==
    \E c \in Conns :
       /\ pc[c] = "numbered" /\ loc[c].seq = 1 /\ loc[c].ticket_year = FirstYear + 1
       /\ FirstYear \in DOMAIN ticket_sequence /\ ticket_sequence[FirstYear] = 2
       /\ work.ticket_sequence[FirstYear] = 2
       /\ work.ticket_sequence[FirstYear + 1] = 1

(* ------------------------------ C26 ----------------------------------- *)
\* the cache row a ticket refers to, as the committed cache holds it
ReferencedJob(t, jc) == CHOOSE j \in {jc[i] : i \in 1..Len(jc)} : j.id = t.job_id
\* C26: a ticket that refers to a cache row is committed with the job code
\* and job name that row holds at the commit, whatever syncs other requests
\* have committed since the request resolved its references: resolution and
\* insert are one transaction.
C26_SnapshotUnderTransaction ==
    [][(TicketCommits /\ Newest.job_id # 0)
          => /\ Newest.job_code_snapshot = ReferencedJob(Newest, jobs_cache').job_code
             /\ Newest.job_name_snapshot = ReferencedJob(Newest, jobs_cache').job_name]_vars

(* ------------------------------ C27 ----------------------------------- *)
\* the step on which a file-based sync takes its next row
TakesFileRow ==
    /\ sync.pc = "rows" /\ sync.chosen # Remote
    /\ sync'.next = sync.next + 1
\* the code of a row of the open file, trimmed
CodeOf(row) ==
    LET col == CHOOSE n \in CodeAliases :
                  /\ n \in Names(FileHeader)
                  /\ n = sync.cols.job_code_col
    IN IF row[col] = None THEN E ELSE strip(row[col])
\* the rows of the open file that carry a code
WithCode == {k \in 1..Len(SyncRows) : CodeOf(SyncRows[k]) # E}
\* C27: a row of the file whose code is empty after trimming is passed over
\* without error: the sync goes on to the next row having written nothing and
\* counted nothing; a sync that commits has gone through all rows, returns
\* the number of rows that carry a code and adds no entry without a code.
C27_EmptyCodeSkipped ==
    [][/\ (TakesFileRow /\ CodeOf(FileRow) = E)
             => /\ sync'.pc = "rows"
                /\ sync'.jobs = sync.jobs /\ sync'.synced = sync.synced
                /\ sync'.wrote = sync.wrote /\ lock' = lock
       /\ (TakesFileRow /\ CodeOf(FileRow) # E)
             => sync'.synced = sync.synced + 1
       /\ (SyncCommits /\ sync.chosen # Remote)
             => /\ sync.next = Len(SyncRows)
                /\ sync'.synced = Cardinality(WithCode)
                /\ \A i \in 1..Len(jobs_cache') :
                      jobs_cache'[i].job_code = E
                         => i <= Len(jobs_cache) /\ jobs_cache[i].job_code = E]_vars
\* the sync of the exported list, whose first row has a blank code, has
\* committed: it returned 2 for 3 rows and cached the job of the later rows
C27_Witness ==
    /\ sync.result = "complete" /\ sync.chosen = AltPath /\ sync.synced = 2
    /\ AltPath \in DOMAIN source.files /\ source.files[AltPath] = AliasFile
    /\ \E i \in 1..Len(jobs_cache) :
          jobs_cache[i].job_code = J100 /\ jobs_cache[i].job_name = Elm
    /\ \A i \in 1..Len(jobs_cache) : jobs_cache[i].job_code # E

(* ------------------------------ C28 ----------------------------------- *)
\* the two messages of a request turned away for its custom timestamp
TimestampMessages == {"Please select a valid date and time.", "Invalid date format."}
\* the step on which connection c is turned away for its timestamp, and the
\* step on which its connection is closed
TurnedAway(c) == pc[c] = "numbered" /\ pc'[c] = "teardown"
Closes(c) == pc[c] = "teardown" /\ pc'[c] = "idle"
\* C28: a request turned away for its custom timestamp returns holding the
\* lock, with the counter update made in its open transaction and nothing
\* committed or rolled back; closing its connection leaves the committed
\* counter and tickets as they were and frees the lock; every allocation, so
\* the next one of that year, issues the value after the committed counter,
\* which is the value the rejected request had computed.
C28_RejectedTimestampRollsBack ==
    [][\A c \in Conns :
          /\ TurnedAway(c)
                => /\ resp'[c] \in TimestampMessages
                   /\ lock = c /\ lock' = c /\ work' = work
                   /\ work.ticket_sequence[loc[c].ticket_year] = loc[c].seq
                   /\ loc[c].seq = NextValue(ticket_sequence, loc[c].ticket_year)
                   /\ ticket_sequence' = ticket_sequence /\ tickets' = tickets
          /\ (Closes(c) /\ lock = c)
                => /\ resp[c] \in TimestampMessages
                   /\ ticket_sequence' = ticket_sequence /\ tickets' = tickets
                   /\ lock' = NoOne
          /\ Allocates(c)
                => loc'[c].seq = NextValue(ticket_sequence, year)
          /\ (TicketCommits /\ pc[c] = "inserted" /\ pc'[c] = "committed")
                => Newest.ticket_sequence = NextValue(ticket_sequence, Newest.ticket_year)]_vars
\* a request was turned away for its timestamp after a ticket of the year was
\* stored: it has returned with the lock and with the counter moved to 2 in
\* its open transaction, while the committed counter stands at 1
C28_Witness ==
    \E c \in Conns :
        /\ pc[c] = "teardown" /\ resp[c] \in TimestampMessages /\ lock = c
        /\ year \in DOMAIN ticket_sequence /\ ticket_sequence[year] = 1
        /\ year \in DOMAIN work.ticket_sequence /\ work.ticket_sequence[year] = 2
        /\ Len(tickets) = 1 /\ tickets[1].ticket_sequence = 1

(* ------------------------------ C29 ----------------------------------- *)
\* the file at the stored path of ticket t holds the bytes of its blob
StoredDocument(t) == t.pdf_path \in DOMAIN files /\ files[t.pdf_path] = t.pdf_blob
\* the step on which connection c writes its document
Saves(c) == pc[c] = "rendered" /\ pc'[c] = "saved"
NoneText == <<"N", "o", "n", "e">>
\* C30: no entry of the jobs cache has an empty code, and none has the text
\* of a NULL code, whichever source the syncs read.
C30_NoEmptyCode ==
    \A i \in 1..Len(jobs_cache) :
        jobs_cache[i].job_code # E /\ jobs_cache[i].job_code # NoneText

====
